---- MODULE Spec2Model ----
(***************************************************************************)
(* drobo: cp / mv / rm of src/drobo/commands.py as a state machine.        *)
(*                                                                         *)
(* One behaviour is one CLI invocation: Init is the state after the        *)
(* CommandHandler was constructed and the arguments were parsed by click,  *)
(* together with the state of the remote store and of the local file       *)
(* system.  The handler first runs its argument handling, wildcard         *)
(* expansion and validation (CpBegin, MvBegin, RmBegin) and then one step  *)
(* per expanded source (CpStep, MvStep, RmStep).                           *)
(*                                                                         *)
(* A path string is modelled by the sequence of its "/"-separated          *)
(* segments: "//a" is <<"", "", "a">>, "/d/a" is <<"", "d", "a">>, "/" is  *)
(* <<"", "">>, "//" is <<"", "", "">> and the relative local path "a" is   *)
(* <<"a">>.  Every gateway call the handler issues is appended to `calls`. *)
(***************************************************************************)
EXTENDS Naturals, Sequences, FiniteSets

VARIABLES
    cmd,               \* the subcommand: "cp", "mv" or "rm"
    sources,           \* the SOURCES operands as click hands them over
    target_directory,  \* the -t option, None when absent
    opts,              \* the flags: recursive, treat_as_file, force, update
    fs,                \* the remote store and the local file system
    pc,                \* "start", "loop", "done" (returned) or "failed" (raised)
    expanded_sources,  \* the expanded sources the loop runs over
    destination,       \* the destination operand
    idx,               \* the position of the loop in expanded_sources
    calls,             \* the gateway and os calls issued so far, in order
    err,               \* the error the command raised, "none" so far
    results,           \* per processed source: what its step did
    _refresh_attempted,\* DropboxClient._refresh_attempted
    request,           \* the DropboxClient method running, with its arguments
    frame,             \* where that method is: "idle", "call", "continue",
                       \* "auth", "conflict_delete", "conflict_copy",
                       \* "returned" or "raised"
    depth,             \* 1 in the caller's call, 2 in the call re-issued
    caught,            \* the error caught or propagating, "none" otherwise
    sdk,               \* the SDK calls the running method made, in order
    ls_args,           \* ls: the path and the flags as click hands them over
    ls_store,          \* ls: what the gateway answers to the listing
    ls_pc,             \* ls: "idle", "cli", "listed", "returned", "raised", "exited"
    ls_call,           \* ls: the list_folder calls issued, with their arguments
    ls_out,            \* ls: the names echoed, in order
    ls_exit            \* ls: the exit status of the process, "running" before

\* The state of the command handler and the state of the gateway client.
hvars == <<cmd, sources, target_directory, opts, fs, pc, expanded_sources,
           destination, idx, calls, err, results>>

cvars == <<_refresh_attempted, request, frame, depth, caught, sdk>>

lvars == <<ls_args, ls_store, ls_pc, ls_call, ls_out, ls_exit>>

vars == <<hvars, cvars, lvars>>

\* ---------------------------------------------------------------- bounds
\* Largest number of source operands of one invocation.
MaxSrc == 2
\* Modification times range over 0..MaxTime.
MaxTime == 1
\* Largest number of paths the source operands expand to.
MaxExpanded == MaxSrc + 1

\* Pages a listing may take beyond the first (files_list_folder_continue).
MaxPages == 1

\* Entries in a listing ls prints, and the largest file size.
MaxItems == 3
MaxSize == 1

\* ----------------------------------------------------------- path strings
\* Python's None (target_directory, a missing mtime, an absent call argument).
None == <<>>

\* "//", the remote root operand, and "/", the root in the API's form.
RemoteRoot == <<"", "", "">>

ApiRoot == <<"", "">>

\* The working directory of the process (os.getcwd()).
Cwd == <<"", "cwd">>

\* Final path segments that contain one of the characters * ? [ ].
WildNames == {"*", "a*"}

\* Leaf names in the order a listing returns them.
NameOrder == <<"a", "b", "d", "not_found">>

NonEmptySeg(s) == s # ""

\* _is_remote_path: path.startswith("//").
_is_remote_path(path) == Len(path) >= 3 /\ path[1] = "" /\ path[2] = ""

\* _normalize_remote_path: "//" + path without its leading slashes, through
\* os.path.abspath (which also drops empty segments and a trailing slash).
_normalize_remote_path(path) ==
    IF path = <<"">> \/ path = RemoteRoot
    THEN RemoteRoot
    ELSE IF SelectSeq(path, NonEmptySeg) = <<>>
         THEN RemoteRoot
         ELSE <<"", "">> \o SelectSeq(path, NonEmptySeg)

\* _normalize_local_path: os.path.abspath(path), the cwd for the empty path.
_normalize_local_path(path) ==
    IF path = <<"">> THEN Cwd
    ELSE IF path[1] = "" THEN <<"">> \o SelectSeq(path, NonEmptySeg)
    ELSE Cwd \o SelectSeq(path, NonEmptySeg)

\* _has_wildcards: re.search(r"[\*\?\[\]]", path).
_has_wildcards(path) == \E i \in 1..Len(path) : path[i] \in WildNames

\* path[1:] of a path that starts with "/": one leading slash less.
StripSlash(path) == Tail(path)

\* os.path.basename(path).
basename(path) == path[Len(path)]

\* os.path.join(path, name) for a relative name.
join(path, name) ==
    IF path[Len(path)] = "" THEN SubSeq(path, 1, Len(path) - 1) \o <<name>>
    ELSE Append(path, name)

\* os.path.split(path)[0]: everything before the last slash ("/" for "/x").
dirname(path) ==
    IF Len(path) = 2 /\ path[1] = "" THEN ApiRoot
    ELSE SubSeq(path, 1, Len(path) - 1)

\* fnmatch.fnmatch(name, mask) on the names and masks of the model.
fnmatch(name, mask) ==
    CASE mask = "*" -> TRUE
      [] mask = "a*" -> name = "a"
      [] OTHER -> name = mask

\* "not_found" in str(e).lower(), for a message that quotes the path `source`.
MentionsNotFound(source) == \E i \in 1..Len(source) : source[i] = "not_found"

\* -------------------------------------------------- remote store, local fs
\* fs.rf / fs.rd: the remote files / folders (API paths);
\* fs.lf / fs.ld: the local files / directories (absolute paths).
RKind(w, path) ==
    IF path \in w.rf THEN "file" ELSE IF path \in w.rd THEN "folder" ELSE "none"

LKind(w, path) ==
    IF path \in w.lf THEN "file" ELSE IF path \in w.ld THEN "dir" ELSE "none"

\* p lies strictly below dir.
Below(p, dir) ==
    LET d == IF dir[Len(dir)] = "" THEN SubSeq(dir, 1, Len(dir) - 1) ELSE dir
    IN  Len(p) > Len(d) /\ SubSeq(p, 1, Len(d)) = d

\* One gateway (or os) call as it is recorded: the operation, its arguments,
\* the index of the expanded source being processed (0 before the loop) and
\* whether the call raised.
Call(op, a, b, i) == [op |-> op, a |-> a, b |-> b, src |-> i, raised |-> FALSE]

\* DropboxClient.list_folder(path): the entries directly below path, as
\* dicts with name, path and type.
ListItem(w, path, name) ==
    [name |-> name, path |-> join(path, name), type |-> RKind(w, join(path, name))]

IsListed(it) == it.type # "none"

list_folder(w, path) ==
    SelectSeq([i \in 1..Len(NameOrder) |-> ListItem(w, path, NameOrder[i])], IsListed)

\* list_folder raises when the path is neither the root nor a folder.
list_folder_ok(w, path) == path = ApiRoot \/ RKind(w, path) = "folder"

\* CommandHandler._is_remote_directory and the get_metadata call it issues.
_is_remote_directory(w, path) ==
    IF path \in {ApiRoot, <<"", "", "">>} THEN TRUE ELSE RKind(w, path) = "folder"

IsDirCalls(path, i) ==
    IF path \in {ApiRoot, <<"", "", "">>} THEN <<>>
    ELSE <<Call("get_metadata", path, None, i)>>

\* ------------------------------------------------ effects of the calls
\* The paths of s with the subtree at `a` removed.
Without(s, a) == {p \in s : p # a /\ ~Below(p, a)}

\* The subtree at `a` of s, re-rooted at `b`.
Rerooted(s, a, b) ==
    {b \o SubSeq(p, Len(a) + 1, Len(p)) : p \in {q \in s : q = a \/ Below(q, a)}}

\* open(local_path, "wb") raises for a directory and below a missing directory.
OpenForWriteFails(w, l) == LKind(w, l) = "dir" \/ LKind(w, dirname(l)) # "dir"

\* The store after files_delete_v2(path).
DeletedAt(w, path) == [w EXCEPT !.rf = Without(@, path), !.rd = Without(@, path)]

\* DropboxClient.copy_file onto an existing path: the service answers with a
\* conflict, the client deletes the destination and copies again.  When the
\* source is the destination or lies below it, the delete removed the source.
SourceLostToConflict(w, c) ==
    /\ RKind(w, c.a) # "none"
    /\ RKind(w, c.b) # "none"
    /\ RKind(DeletedAt(w, c.b), c.a) = "none"

\* The call c cannot succeed in the state w: its source is missing, or the
\* local file cannot be opened.
MustFail(w, c) ==
    CASE c.op = "move_file" -> RKind(w, c.a) = "none"
      [] c.op = "copy_file" -> RKind(w, c.a) = "none" \/ SourceLostToConflict(w, c)
      [] c.op = "delete_file" -> RKind(w, c.a) = "none"
      [] c.op = "upload_file" -> LKind(w, c.a) # "file"
      [] c.op = "download_file" -> OpenForWriteFails(w, c.b) \/ RKind(w, c.a) # "file"
      [] c.op = "os_remove" -> LKind(w, c.a) # "file"
      [] c.op = "makedirs" -> \E n \in 1..Len(c.a) : LKind(w, SubSeq(c.a, 1, n)) = "file"
      [] OTHER -> FALSE

\* Queries change nothing and their failures are handled where they are made:
\* get_metadata raises for a missing path, list_folder for what is no folder.
IsQuery(c) == c.op \in {"get_metadata", "list_folder"}

QueryRaises(w, c) ==
    IF c.op = "get_metadata" THEN RKind(w, c.a) = "none" ELSE ~list_folder_ok(w, c.a)

\* The state after the call c succeeded.
Effect(w, c) ==
    CASE c.op = "move_file" ->
            [w EXCEPT !.rf = Without(Without(@, c.b), c.a) \cup Rerooted(w.rf, c.a, c.b),
                      !.rd = Without(Without(@, c.b), c.a) \cup Rerooted(w.rd, c.a, c.b)]
      [] c.op = "copy_file" ->
            [w EXCEPT !.rf = Without(@, c.b) \cup Rerooted(w.rf, c.a, c.b),
                      !.rd = Without(@, c.b) \cup Rerooted(w.rd, c.a, c.b)]
      [] c.op = "delete_file" ->
            [w EXCEPT !.rf = Without(@, c.a), !.rd = Without(@, c.a)]
      [] c.op = "upload_file" ->
            [w EXCEPT !.rf = Without(@, c.b) \cup {c.b}, !.rd = Without(@, c.b)]
      [] c.op = "download_file" ->
            [w EXCEPT !.lf = @ \cup {c.b}]
      [] c.op = "create_folder" ->
            [w EXCEPT !.rd = @ \cup {c.a}, !.rf = @ \ {c.a}]
      [] c.op = "os_remove" ->
            [w EXCEPT !.lf = @ \ {c.a}]
      [] c.op = "makedirs" ->
            [w EXCEPT !.ld = @ \cup {SubSeq(c.a, 1, n) : n \in 2..Len(c.a)}]
      [] OTHER -> w

\* What a failed call leaves behind: download_file has already created (or
\* truncated) the local file when the download itself fails, and copy_file
\* has deleted the destination when its second copy finds no source (a
\* failure of the gateway, `injected`, is one of the first copy).
FailEffect(w, c, injected) ==
    IF c.op = "download_file" /\ ~OpenForWriteFails(w, c.b)
    THEN [w EXCEPT !.lf = @ \cup {c.b}]
    ELSE IF c.op = "copy_file" /\ ~injected /\ SourceLostToConflict(w, c)
    THEN DeletedAt(w, c.b)
    ELSE w

\* Run the calls of `plan` in order from state w.  Call number k fails (the
\* gateway raised; k = 0: no such failure), and so does the first call that
\* cannot succeed.  Yields the state reached, the calls issued and whether a
\* call other than a query raised.
RECURSIVE ExecFrom(_, _, _, _)
ExecFrom(w, plan, i, k) ==
    IF i > Len(plan) THEN [w |-> w, log |-> <<>>, failed |-> FALSE]
    ELSE IF IsQuery(plan[i])
    THEN LET rest == ExecFrom(w, plan, i + 1, k)
         IN  [rest EXCEPT !.log = <<[plan[i] EXCEPT !.raised = QueryRaises(w, plan[i])]>> \o @]
    ELSE IF i = k \/ MustFail(w, plan[i])
    THEN [w |-> FailEffect(w, plan[i], i = k), log |-> <<[plan[i] EXCEPT !.raised = TRUE]>>,
          failed |-> TRUE]
    ELSE LET rest == ExecFrom(Effect(w, plan[i]), plan, i + 1, k)
         IN  [rest EXCEPT !.log = <<plan[i]>> \o @]

Exec(w, plan, k) == ExecFrom(w, plan, 1, k)

\* The record of calls that are all queries.
Asked(w, cs) == Exec(w, cs, 0).log

\* ------------------------------------------------------ wildcard expansion
\* glob.glob(source) for a local source: the existing paths it matches, in
\* the form the source was given in.
glob(w, source) ==
    IF _has_wildcards(source)
    THEN LET dir == SubSeq(source, 1, Len(source) - 1)
             Hit(name) == fnmatch(name, basename(source))
                          /\ LKind(w, _normalize_local_path(Append(dir, name))) # "none"
         IN  [i \in 1..Len(SelectSeq(NameOrder, Hit)) |->
                 Append(dir, SelectSeq(NameOrder, Hit)[i])]
    ELSE IF LKind(w, _normalize_local_path(source)) # "none" THEN <<source>> ELSE <<>>

\* A filter that keeps every listed item.
KeepAllItems(items, mask) == items

\* CommandHandler._filter_remote_paths.
_filter_remote_paths(items, mask) ==
    LET Keep(it) == fnmatch(it.name, mask) IN SelectSeq(items, Keep)

\* What one source contributes to the expansion: the paths, the calls issued
\* and whether the listing raised.
ExpandOne(w, source) ==
    IF _is_remote_path(source)
    THEN LET path == _normalize_remote_path(source)
             dir_name == dirname(StripSlash(path))
             mask == basename(StripSlash(path))
             items == _filter_remote_paths(list_folder(w, dir_name), mask)
         IN  IF _has_wildcards(path)
             THEN IF list_folder_ok(w, dir_name)
                  THEN [list |-> [i \in 1..Len(items) |-> _normalize_remote_path(items[i].path)],
                        calls |-> <<Call("list_folder", dir_name, None, 0)>>,
                        raised |-> FALSE]
                  ELSE [list |-> <<>>,
                        calls |-> <<Call("list_folder", dir_name, None, 0)>>,
                        raised |-> TRUE]
             ELSE [list |-> <<source>>, calls |-> <<>>, raised |-> FALSE]
    ELSE [list |-> glob(w, source), calls |-> <<>>, raised |-> FALSE]

\* CommandHandler._expand_source_wildcards: the sources in order, stopping at
\* the first listing that raises.
RECURSIVE ExpandFrom(_, _, _)
ExpandFrom(w, source_list, i) ==
    IF i > Len(source_list) THEN [list |-> <<>>, calls |-> <<>>, raised |-> FALSE]
    ELSE LET one == ExpandOne(w, source_list[i])
             rest == ExpandFrom(w, source_list, i + 1)
         IN  IF one.raised THEN one
             ELSE [list |-> one.list \o rest.list,
                   calls |-> one.calls \o rest.calls,
                   raised |-> rest.raised]

_expand_source_wildcards(w, source_list) == ExpandFrom(w, source_list, 1)

\* ------------------------------------------------------------ the inputs
RA == <<"", "a">>
RB == <<"", "b">>
RD == <<"", "d">>
RDA == <<"", "d", "a">>
RDB == <<"", "d", "b">>
RNF == <<"", "not_found">>
LA == Cwd \o <<"a">>
LB == Cwd \o <<"b">>
LD == Cwd \o <<"d">>
LDA == Cwd \o <<"d", "a">>
RDD == <<"", "d", "d">>
RDDA == <<"", "d", "d", "a">>
LDD == Cwd \o <<"d", "d">>
LDDA == Cwd \o <<"d", "d", "a">>

\* The source operands: //a //b //d/* and a b a*, //not_found and //d/a*
\* for rm, and the local directory d or the remote folder //d as the one
\* source of a cp.
Star == <<"", "", "d", "*">>

RemoteOps == {<<"", "", "a">>, <<"", "", "b">>, Star}

LocalOps == {<<"a">>, <<"b">>, <<"a*">>}

StarA == <<"", "", "d", "a*">>

Ops(c) ==
    RemoteOps \cup LocalOps \cup (IF c = "rm" THEN {<<"", "", "not_found">>, StarA} ELSE {})

\* The destination operands: //d and d, and // for cp.
Dests(c) == {<<"", "", "d">>, <<"d">>} \cup (IF c = "cp" THEN {RemoteRoot} ELSE {})

LocalDir == <<"d">>

RemoteDir == <<"", "", "d">>

SourceLists(c) ==
    UNION {[1..n -> Ops(c)] : n \in 0..MaxSrc}
        \cup (IF c = "cp" THEN {<<LocalDir>>, <<RemoteDir>>} ELSE {})

\* The forms of a command line: -t DIR with the sources, the sources with a
\* trailing destination, and the operands alone (rm; no operand at all for
\* cp and mv, which click refuses before the handler does).
Forms(c, srcs) ==
    IF c = "rm" THEN {"operands"}
    ELSE IF srcs = <<>> THEN {"t", "trailing", "operands"}
    ELSE {"t", "trailing"}

NoFlags == [recursive |-> FALSE, treat_as_file |-> FALSE, force |-> FALSE, update |-> FALSE]

Flags(c) ==
    CASE c = "cp" -> {[NoFlags EXCEPT !.recursive = r, !.treat_as_file = t] : r, t \in BOOLEAN}
      [] c = "mv" -> {[NoFlags EXCEPT !.force = f, !.update = u] : f, u \in BOOLEAN}
      [] OTHER -> {[NoFlags EXCEPT !.force = f, !.recursive = r] : f, r \in BOOLEAN}

\* What is on the remote store and on the disk before the command: //a is a
\* file, a folder or missing; //b is a file; //d is a folder (with or without
\* files d/a and d/b), a file or missing; //not_found is a folder or missing;
\* the local a is a file or missing, b is a file, d is a directory (with or
\* without a file d/a), a file or missing.  When d or //d is the source of a
\* cp, the tree goes one level deeper: d/d (with or without d/d/a).  A fact the invocation cannot read
\* keeps one value: the paths an invocation can read are its operands, what
\* its wildcard lists, its destination and the destination joined with the
\* leaf of a source.
Mentions(srcs, op) == \E i \in 1..Len(srcs) : srcs[i] = op

LeafA(srcs) == \E i \in 1..Len(srcs) : basename(srcs[i]) \in {"a", "a*", "*"}

Facts(c, srcs, dest) ==
    LET star == Mentions(srcs, Star) \/ Mentions(srcs, StarA)
        rdest == c # "rm" /\ dest = <<"", "", "d">>
        ldest == c # "rm" /\ dest = <<"d">>
        KA == IF ~Mentions(srcs, <<"", "", "a">>) THEN {"file"}
              ELSE IF c = "mv" THEN {"file", "none"} ELSE {"file", "folder", "none"}
        tree == Mentions(srcs, RemoteDir)
        ltree == Mentions(srcs, LocalDir)
        KD == IF rdest \/ star \/ tree THEN {"folder", "file", "none"} ELSE {"folder"}
        KDA == IF (rdest /\ LeafA(srcs)) \/ star \/ tree
               THEN {"file", "none"} ELSE {"none"}
        KDD == IF tree \/ ltree THEN {"folder", "none"} ELSE {"none"}
        KDDA == IF tree THEN {"file", "none"} ELSE {"none"}
        LKDD == IF ltree \/ (tree /\ ldest) THEN {"dir", "none"} ELSE {"none"}
        LKDDA == IF ltree THEN {"file", "none"} ELSE {"none"}
        KDB == IF star THEN {"file", "none"} ELSE {"none"}
        KNF == IF Mentions(srcs, <<"", "", "not_found">>) THEN {"folder", "none"} ELSE {"none"}
        LFA == IF Mentions(srcs, <<"a">>) \/ Mentions(srcs, <<"a*">>)
               THEN {"file", "none"} ELSE {"file"}
        LKD == IF ldest \/ ltree THEN {"dir", "file", "none"} ELSE {"dir"}
        LKDA == IF (ldest /\ LeafA(srcs)) \/ ltree THEN {"file", "none"} ELSE {"none"}
    IN  {f \in [ka : KA, kd : KD, kda : KDA, kdb : KDB, knf : KNF, kdd : KDD,
                kdda : KDDA, la : LFA, ld : LKD, lda : LKDA, ldd : LKDD,
                ldda : LKDDA] :
            /\ f.kda = "file" => f.kd = "folder"
            /\ f.kdb = "file" => f.kd = "folder"
            /\ f.kdd = "folder" => f.kd = "folder"
            /\ f.kdda = "file" => f.kdd = "folder"
            /\ f.lda = "file" => f.ld = "dir"
            /\ f.ldd = "dir" => f.ld = "dir"
            /\ f.ldda = "file" => f.ldd = "dir"}

FsOf(f) ==
    [rf |-> {RB} \cup (IF f.ka = "file" THEN {RA} ELSE {})
                 \cup (IF f.kd = "file" THEN {RD} ELSE {})
                 \cup (IF f.kda = "file" THEN {RDA} ELSE {})
                 \cup (IF f.kdb = "file" THEN {RDB} ELSE {})
                 \cup (IF f.kdda = "file" THEN {RDDA} ELSE {}),
     rd |-> (IF f.ka = "folder" THEN {RA} ELSE {})
            \cup (IF f.kd = "folder" THEN {RD} ELSE {})
            \cup (IF f.kdd = "folder" THEN {RDD} ELSE {})
            \cup (IF f.knf = "folder" THEN {RNF} ELSE {}),
     lf |-> {LB} \cup (IF f.la = "file" THEN {LA} ELSE {})
                 \cup (IF f.ld = "file" THEN {LD} ELSE {})
                 \cup (IF f.lda = "file" THEN {LDA} ELSE {})
                 \cup (IF f.ldda = "file" THEN {LDDA} ELSE {}),
     ld |-> {<<"">>, Cwd} \cup (IF f.ld = "dir" THEN {LD} ELSE {})
                          \cup (IF f.ldd = "dir" THEN {LDD} ELSE {})]

\* What a step reports about the source it processed.
NoTime == [t |-> "none", v |-> 0]

Result(source, out, e, kind, dest_path, dest_exists, sm, dm) ==
    [source |-> source, out |-> out, err |-> e, kind |-> kind, dest_path |-> dest_path,
     dest_exists |-> dest_exists, sm |-> sm, dm |-> dm]

\* The command raises e before its loop started, having issued the calls cs
\* and got as far as the expanded sources list and the destination dest.
Abort(e, cs, list, dest) ==
    /\ pc' = "failed"
    /\ err' = e
    /\ calls' = calls \o Asked(fs, cs)
    /\ expanded_sources' = list
    /\ destination' = dest
    /\ UNCHANGED <<lvars, cvars, cmd, sources, target_directory, opts, fs, idx, results>>

\* A loop that goes on to the next source whatever the step did.
LoopOnRegardless(e, swallow) ==
    /\ pc' = IF idx = Len(expanded_sources) THEN "done" ELSE "loop"
    /\ err' = err
    /\ idx' = idx + 1

\* A loop that ends the command on an error, swallowing none.
LoopOnStrict(e, swallow) ==
    IF e # "none"
    THEN pc' = "failed" /\ err' = e /\ idx' = idx
    ELSE /\ pc' = IF idx = Len(expanded_sources) THEN "done" ELSE "loop"
         /\ err' = err
         /\ idx' = idx + 1

\* The loop of a command: the step of source idx ended with error e ("none":
\* it returned).  An error ends the command unless `swallow`, which is rm -f.
LoopOn(e, swallow) ==
    IF e # "none" /\ ~swallow
    THEN pc' = "failed" /\ err' = e /\ idx' = idx
    ELSE /\ pc' = IF idx = Len(expanded_sources) THEN "done" ELSE "loop"
         /\ err' = err
         /\ idx' = idx + 1

\* ------------------------------------------- argument forms, validation
\* A check of the second source against the first, and of no other.
ValidateSecondOnly(list) ==
    Len(list) >= 2 => _is_remote_path(list[2]) = _is_remote_path(list[1])

\* CommandHandler._validate_source_consistency: the sources that follow the
\* first are all of the first one's domain.
_validate_source_consistency(list) ==
    \A i \in 2..Len(list) : _is_remote_path(list[i]) = _is_remote_path(list[1])

\* The check of the destination made for the remote destinations only.
ValidateRemoteOnly(w, dest) ==
    _is_remote_path(dest)
        => _is_remote_directory(w, StripSlash(_normalize_remote_path(dest)))

\* CommandHandler._validate_destination_for_multiple_files: the destination
\* is a directory; and the get_metadata call the check issues.
_validate_destination_for_multiple_files(w, dest) ==
    IF _is_remote_path(dest)
    THEN _is_remote_directory(w, StripSlash(_normalize_remote_path(dest)))
    ELSE LKind(w, _normalize_local_path(dest)) = "dir"

ValidateCalls(dest) ==
    IF _is_remote_path(dest)
    THEN IsDirCalls(StripSlash(_normalize_remote_path(dest)), 0)
    ELSE <<>>

\* cp_with_options and mv_with_options up to their loops (mv passes
\* treat_as_file = FALSE): the form of the command line, the expansion and
\* the validations.  Yields the error raised ("none": the loop starts), the
\* calls issued, the expanded sources and the destination.
Prepare(w, srcs, tdir, treat_as_file) ==
    LET form_err ==
            IF srcs = <<>> THEN "missing_operand"
            ELSE IF tdir # None THEN "none"
            ELSE IF treat_as_file
            THEN IF Len(srcs) # 2 THEN "T_requires_two" ELSE "none"
            ELSE IF Len(srcs) < 2 THEN "missing_operand" ELSE "none"
        dest == IF tdir # None THEN tdir ELSE srcs[Len(srcs)]
        source_list == IF tdir # None THEN srcs ELSE SubSeq(srcs, 1, Len(srcs) - 1)
        ex == _expand_source_wildcards(w, source_list)
    IN  IF form_err # "none"
        THEN [err |-> form_err, calls |-> <<>>, list |-> <<>>, dest |-> None]
        ELSE IF ex.raised
        THEN [err |-> "expand_error", calls |-> ex.calls, list |-> <<>>, dest |-> dest]
        ELSE IF ex.list = <<>>
        THEN [err |-> "no_files_matched", calls |-> ex.calls, list |-> <<>>, dest |-> dest]
        ELSE IF ~_validate_source_consistency(ex.list)
        THEN [err |-> "cannot_mix", calls |-> ex.calls, list |-> ex.list, dest |-> dest]
        ELSE IF Len(ex.list) > 1 /\ ~treat_as_file
                /\ ~_validate_destination_for_multiple_files(w, dest)
        THEN [err |-> "not_a_directory", calls |-> ex.calls \o ValidateCalls(dest),
              list |-> ex.list, dest |-> dest]
        ELSE [err |-> "none",
              calls |-> ex.calls \o (IF Len(ex.list) > 1 /\ ~treat_as_file
                                     THEN ValidateCalls(dest) ELSE <<>>),
              list |-> ex.list, dest |-> dest]

\* The command passed its checks and enters its loop.  The loop reads the
\* expanded sources and the destination only: the operands are dropped here.
Enter(p) ==
    /\ pc' = "loop"
    /\ idx' = 1
    /\ expanded_sources' = p.list
    /\ destination' = p.dest
    /\ calls' = calls \o Asked(fs, p.calls)
    /\ sources' = <<>>
    /\ target_directory' = None
    /\ UNCHANGED <<lvars, cvars, cmd, opts, fs, err, results>>

\* ------------------------------------------------------ the gateway client
\* DropboxClient (dropbox_client.py).  One behaviour of ClientSpec is the
\* lifetime of one client: the handler calls its methods one after the
\* other, and each SDK call a method makes is answered by the service with
\* one of the responses below.  `sdk` is the log of the running method.
NoArg == "-"

NoRequest == [op |-> "none", a |-> NoArg, b |-> NoArg, recursive |-> FALSE]

\* A method call with its arguments.  An absent `recursive` is the SDK's
\* default, False.
Req(op, a, b, recursive) == [op |-> op, a |-> a, b |-> b, recursive |-> recursive]

\* The calls the handler makes: list_folder(path, recursive=...) of ls and of
\* the expansion, and the seven one-call methods.
Requests ==
    {Req("list_folder", "/d", NoArg, r) : r \in BOOLEAN}
        \cup {Req("get_metadata", "/a", NoArg, FALSE),
              Req("download_file", "/a", "a", FALSE),
              Req("upload_file", "a", "/a", FALSE),
              Req("copy_file", "/a", "/b", FALSE),
              Req("move_file", "/a", "/b", FALSE),
              Req("delete_file", "/a", NoArg, FALSE),
              Req("create_folder", "/d", NoArg, FALSE)}

\* The SDK function the try block of a method calls first.
SdkFn(op) ==
    CASE op = "list_folder"   -> "files_list_folder"
      [] op = "get_metadata"  -> "files_get_metadata"
      [] op = "download_file" -> "files_download"
      [] op = "upload_file"   -> "files_upload"
      [] op = "copy_file"     -> "files_copy_v2"
      [] op = "move_file"     -> "files_move_v2"
      [] op = "delete_file"   -> "files_delete_v2"
      [] op = "create_folder" -> "files_create_folder_v2"

SdkEntry(fn, a, b, recursive, d, resp) ==
    [fn |-> fn, a |-> a, b |-> b, recursive |-> recursive, depth |-> d,
     resp |-> resp]

\* files_download takes the remote path alone; every other function takes
\* the arguments of the method (files_upload: the content read from the
\* local path, and the remote path).
SdkCall(r, d, resp) ==
    SdkEntry(SdkFn(r.op), r.a,
             IF r.op = "download_file" THEN NoArg ELSE r.b,
             r.recursive, d, resp)

\* The two kinds of AuthError: is_expired_access_token() or not.
AuthErrors == {"expired", "invalid"}

\* What the service answers to the first call of a method: "more" is a
\* listing page with has_more, "conflict" and "from_lookup" are the
\* RelocationErrors of a copy, "api" any other ApiError; "os_error" is
\* open() of the local path failing before the SDK is called.
Responses(op, pages) ==
    {"ok", "api"} \cup AuthErrors
        \cup (IF op = "list_folder" /\ pages < MaxPages THEN {"more"} ELSE {})
        \cup (IF op = "copy_file" THEN {"conflict", "from_lookup"} ELSE {})
        \cup (IF op \in {"upload_file", "download_file"} THEN {"os_error"} ELSE {})

\* Pages fetched by files_list_folder_continue in the running call.
Pages(log, d) ==
    Len(SelectSeq(log, LAMBDA e : e.fn = "files_list_folder_continue" /\ e.depth = d))

\* The except clauses of a method, by the error of the try block.
AfterAttempt(op, resp) ==
    CASE resp = "ok"           -> [frame |-> "returned", caught |-> "none"]
      [] resp = "more"         -> [frame |-> "continue", caught |-> "none"]
      [] resp \in AuthErrors   -> [frame |-> "auth", caught |-> resp]
      [] resp = "conflict"     -> [frame |-> "conflict_delete", caught |-> "none"]
      [] resp = "from_lookup"  -> [frame |-> "raised", caught |-> "file_not_found"]
      [] OTHER                 -> [frame |-> "raised", caught |-> resp]

\* The call `except AuthError` makes after _handle_auth_error returned:
\* list_folder calls self.list_folder(path), every other method calls
\* itself with the arguments it was given.
Reissued(r) ==
    IF r.op = "list_folder" THEN Req(r.op, r.a, r.b, FALSE) ELSE r

\* The handler calls a method of the client.
Request ==
    /\ frame \in {"idle", "returned", "raised"}
    /\ \E r \in Requests : request' = r
    /\ depth' = 1
    /\ frame' = "call"
    /\ caught' = "none"
    /\ sdk' = <<>>
    /\ UNCHANGED <<lvars, hvars, _refresh_attempted>>

\* The first SDK call of the try block.
Attempt ==
    /\ frame = "call"
    /\ \E resp \in Responses(request.op, 0) :
        /\ sdk' = IF resp = "os_error" THEN sdk
                  ELSE Append(sdk, SdkCall(request, depth, resp))
        /\ frame' = AfterAttempt(request.op, resp).frame
        /\ caught' = AfterAttempt(request.op, resp).caught
    /\ UNCHANGED <<lvars, hvars, _refresh_attempted, request, depth>>

\* `while result.has_more` of list_folder.
Continue ==
    /\ frame = "continue"
    /\ \E resp \in Responses("list_folder", Pages(sdk, depth) + 1) :
        /\ sdk' = Append(sdk, SdkEntry("files_list_folder_continue", "cursor",
                                       NoArg, FALSE, depth, resp))
        /\ frame' = AfterAttempt(request.op, resp).frame
        /\ caught' = AfterAttempt(request.op, resp).caught
    /\ UNCHANGED <<lvars, hvars, _refresh_attempted, request, depth>>

\* A guard that allows one refresh in every method call.
MayRefreshPerCall == caught = "expired" /\ depth = 1

\* `error.error.is_expired_access_token() and not self._refresh_attempted`.
MayRefresh == caught = "expired" /\ ~_refresh_attempted

\* _handle_auth_error, and the call re-issued when it returns.  The flow may
\* succeed, fail, or be refused before it starts for want of an app key or
\* secret (then the flag stays unset).
HandleAuthError ==
    /\ frame = "auth"
    /\ IF MayRefresh
       THEN \E flow \in {"ok", "failed", "no_credentials"} :
                /\ _refresh_attempted' = (flow # "no_credentials")
                /\ sdk' = IF flow = "no_credentials" THEN sdk
                          ELSE Append(sdk, SdkEntry("oauth2_flow", NoArg, NoArg,
                                                    FALSE, depth, flow))
                /\ IF flow = "ok"
                   THEN /\ request' = Reissued(request)
                        /\ depth' = depth + 1
                        /\ frame' = "call"
                        /\ caught' = "none"
                   ELSE /\ frame' = "raised"
                        /\ caught' = "refresh_failed"
                        /\ UNCHANGED <<request, depth>>
       ELSE /\ frame' = "raised"
            /\ UNCHANGED <<_refresh_attempted, request, depth, caught, sdk>>
    /\ UNCHANGED <<lvars, hvars>>

\* What copy_file does with the answer to the copy it repeats after the
\* delete: it returns, or the error leaves the except clause.
ConflictRetryAgain(resp) ==
    IF resp = "ok" THEN "returned"
    ELSE IF resp = "conflict" THEN "conflict_delete" ELSE "raised"

ConflictRetryNext(resp) ==
    IF resp = "ok" THEN "returned" ELSE "raised"

\* copy_file on a conflict at the destination: files_delete_v2(to_path).
ConflictDelete ==
    /\ frame = "conflict_delete"
    /\ \E resp \in {"ok", "api"} \cup AuthErrors :
        /\ sdk' = Append(sdk, SdkEntry("files_delete_v2", request.b, NoArg,
                                       FALSE, depth, resp))
        /\ frame' = IF resp = "ok" THEN "conflict_copy" ELSE "raised"
        /\ caught' = IF resp = "ok" THEN "none" ELSE resp
    /\ UNCHANGED <<lvars, hvars, _refresh_attempted, request, depth>>

\* ... and files_copy_v2(from_path, to_path) once more.
ConflictCopy ==
    /\ frame = "conflict_copy"
    /\ \E resp \in {"ok", "api", "conflict", "from_lookup"} \cup AuthErrors :
        /\ sdk' = Append(sdk, SdkEntry("files_copy_v2", request.a, request.b,
                                       FALSE, depth, resp))
        /\ frame' = ConflictRetryNext(resp)
        /\ caught' = IF ConflictRetryNext(resp) = "raised" THEN resp ELSE "none"
    /\ UNCHANGED <<lvars, hvars, _refresh_attempted, request, depth>>

\* ---------------------------------------------------------------------- ls
\* cli.ls and CommandHandler.ls_with_options.  A listing entry is a dict with
\* name, type and, for a file, size and modified; a folder has neither key.
\* The names of the model, in the order of their code points, which is the
\* order sorted() puts strings in.
LsNames == <<".h", "a", "b", "d">>

NameRank(name) == CHOOSE i \in 1..Len(LsNames) : LsNames[i] = name

LsItem(name, size, modified) ==
    [name |-> name, type |-> IF name = "d" THEN "folder" ELSE "file",
     size |-> size, modified |-> modified]

\* x.get("size", 0).
SizeKey(item) == IF item.type = "folder" THEN 0 ELSE item.size

\* sorted(items, key=...): a stable sort, ascending; keys[i] is the key of
\* items[i].
SortedBy(items, keys) ==
    LET Rank(i) == Cardinality({j \in 1..Len(items) :
                        \/ keys[j] < keys[i]
                        \/ keys[j] = keys[i] /\ j < i}) + 1
    IN  [p \in 1..Len(items) |-> items[CHOOSE i \in 1..Len(items) : Rank(i) = p]]

\* sorted(items, key=..., reverse=True): descending, equal keys kept in the
\* order of the input.
SortedByDescending(items, keys) ==
    LET Rank(i) == Cardinality({j \in 1..Len(items) :
                        \/ keys[j] > keys[i]
                        \/ keys[j] = keys[i] /\ j < i}) + 1
    IN  [p \in 1..Len(items) |-> items[CHOOSE i \in 1..Len(items) : Rank(i) = p]]

\* items[::-1].
Reversed(items) == [p \in 1..Len(items) |-> items[Len(items) + 1 - p]]

\* A size sort that sorts ascending and flips the result.
SortedBySizeFlipped(items) ==
    Reversed(SortedBy(items, [i \in 1..Len(items) |-> SizeKey(items[i])]))

\* sorted(items, key=lambda x: x.get("size", 0), reverse=True).
SortedBySize(items) ==
    SortedByDescending(items, [i \in 1..Len(items) |-> SizeKey(items[i])])

\* sorted(items, key=lambda x: x["name"]).
SortedByName(items) ==
    SortedBy(items, [i \in 1..Len(items) |-> NameRank(items[i].name)])

\* sorted(items, key=get_modified_time, reverse=True): the key of a file is
\* the timestamp of its datetime, the key of a folder is "", and comparing
\* the two raises TypeError.
TimeSortRaises(items) ==
    \E i, j \in 1..Len(items) : items[i].type = "folder" /\ items[j].type = "file"

SortedByTime(items) ==
    LET TimeKey(item) == IF item.type = "folder" THEN 0 ELSE item.modified
    IN  SortedByDescending(items, [i \in 1..Len(items) |-> TimeKey(items[i])])

\* The path ls hands to list_folder and the mask it filters with ("": no
\* mask): "" for the root, the API path otherwise, split at its last slash
\* when it has a wildcard.
LsTarget(path) ==
    LET normal == _normalize_remote_path(path)
        api == IF normal = RemoteRoot THEN <<"">> ELSE StripSlash(normal)
    IN  IF _has_wildcards(api)
        THEN [path |-> dirname(api), mask |-> basename(api)]
        ELSE [path |-> api, mask |-> ""]

\* The order ls prints a non-recursive listing in.
LsOrder(items, args) ==
    LET sorted == IF args.sort_by_size THEN SortedBySize(items)
                  ELSE IF args.sort_by_time THEN SortedByTime(items)
                  ELSE SortedByName(items)
    IN  IF args.reverse THEN Reversed(sorted) ELSE sorted

\* _build_recursive_tree and _print_recursive_format for entries of one
\* directory: its name, then its files by name.
NamesOf(items) == [p \in 1..Len(items) |-> items[p].name]

LsTree(items, dir) ==
    IF items = <<>> THEN <<>>
    ELSE <<dir>> \o NamesOf(SortedByName(SelectSeq(items, LAMBDA it : it.type = "file")))

NoLs ==
    [path |-> None, long_format |-> FALSE, reverse |-> FALSE, recursive |-> FALSE,
     sort_by_size |-> FALSE, sort_by_time |-> FALSE]

NoListing == [items |-> <<>>, raises |-> FALSE]

\* No ls runs.
LsIdle ==
    /\ ls_args = NoLs
    /\ ls_store = NoListing
    /\ ls_pc = "idle"
    /\ ls_call = <<>>
    /\ ls_out = <<>>
    /\ ls_exit = "running"

\* No cp, mv or rm runs.
NoCommand ==
    /\ cmd = "none"
    /\ sources = <<>>
    /\ target_directory = None
    /\ opts = NoFlags
    /\ fs = [rf |-> {}, rd |-> {}, lf |-> {}, ld |-> {}]
    /\ pc = "done"
    /\ expanded_sources = <<>>
    /\ destination = None
    /\ idx = 0
    /\ calls = <<>>
    /\ err = "none"
    /\ results = <<>>

\* The client after __init__, before its first call.
ClientNew ==
    /\ _refresh_attempted = FALSE
    /\ request = NoRequest
    /\ frame = "idle"
    /\ depth = 0
    /\ caught = "none"
    /\ sdk = <<>>

ClientInit == NoCommand /\ ClientNew /\ LsIdle

\* A method that was called runs to its return or to its raise.
Running == Attempt \/ Continue \/ HandleAuthError \/ ConflictDelete \/ ConflictCopy

ClientNext == Request \/ Running

ClientSpec == ClientInit /\ [][ClientNext]_vars /\ WF_vars(Running)

\* ------------------------------------------------------------------ Init
\* An invocation that does not get as far as its loop reads neither its
\* destination nor its flags (treat_as_file and the force of rm excepted):
\* these keep one value then.
Relevant(c, srcs, dest, o, f) ==
    LET ex == _expand_source_wildcards(FsOf(f), srcs)
        proceeds == ~ex.raised /\ ex.list # <<>> /\ _validate_source_consistency(ex.list)
                    /\ (c = "rm" => \A i \in 1..Len(ex.list) : _is_remote_path(ex.list[i]))
    IN  /\ Len(ex.list) <= MaxExpanded
        /\ ~proceeds =>
            /\ o.recursive = FALSE /\ o.update = FALSE
            /\ c # "rm" => o.force = FALSE
            /\ f.ka = "file" /\ f.ld = "dir" /\ f.lda = "none"
            /\ ~(Mentions(srcs, Star) \/ Mentions(srcs, StarA))
                  => (f.kd = "folder" /\ f.kda = "none")

\* The state after click parsed the command line and the handler was built.
\* With -t DIR every operand is a source; otherwise the destination is the
\* last operand.  rm takes no destination.
Init ==
    \E c \in {"cp", "mv", "rm"} :
      \E dest \in IF c = "rm" THEN {RemoteRoot} ELSE Dests(c),
         srcs \in SourceLists(c), o \in Flags(c) :
        \E f \in Facts(c, srcs, dest), form \in Forms(c, srcs) :
            /\ Relevant(c, srcs, dest, o, f)
            /\ form = "operands" => (dest = RemoteRoot \/ c = "mv")
            /\ cmd = c
            /\ opts = o
            /\ sources = IF form = "trailing" THEN Append(srcs, dest) ELSE srcs
            /\ target_directory = IF form = "t" THEN dest ELSE None
            /\ fs = FsOf(f)
            /\ pc = "start"
            /\ expanded_sources = <<>>
            /\ destination = None
            /\ idx = 0
            /\ calls = <<>>
            /\ err = "none"
            /\ results = <<>>
            /\ _refresh_attempted = FALSE
            /\ request = NoRequest
            /\ frame = "idle"
            /\ depth = 0
            /\ caught = "none"
            /\ sdk = <<>>
            /\ LsIdle

\* --------------------------------------------------------------------- mv
\* `if source_mtime and dest_mtime`: None is false, the float 0.0 of
\* os.path.getmtime is false, a datetime is true.
Truthy(m) == m.t = "datetime" \/ (m.t = "float" /\ m.v # 0)

\* metadata.get("modified") of a remote path (client_modified, a datetime,
\* for a file; None for a folder or when get_metadata raised) and
\* os.path.getmtime of an existing local path (a float); v is the time read.
MTime(w, is_remote, path, v) ==
    IF is_remote
    THEN IF RKind(w, path) = "file" THEN [t |-> "datetime", v |-> v] ELSE NoTime
    ELSE IF LKind(w, path) # "none" THEN [t |-> "float", v |-> v] ELSE NoTime

\* An existing destination that is never fatal.
DestExistsNeverRaises(dest_exists, force, update) == FALSE

\* An existing destination that is fatal whenever update is unset.
DestExistsRaisesDespiteForce(dest_exists, force, update) == dest_exists /\ ~update

\* _move_file, "Handle destination exists scenario": the destination exists
\* and neither force nor update is set.
DestExistsRaises(dest_exists, force, update) == dest_exists /\ ~force /\ ~update

\* _move_file, "Skip if source is not newer": with update, both times read
\* and true, and the source not newer than the destination.
SkipsMove(dest_exists, force, update, source_mtime, dest_mtime) ==
    /\ dest_exists
    /\ ~(~force /\ ~update)
    /\ update
    /\ Truthy(source_mtime) /\ Truthy(dest_mtime)
    /\ source_mtime.v <= dest_mtime.v

\* A move that removes the source before it carries it over.
MovePlanRemoveFirst(source_is_remote, dest_is_remote, source_path, dest_path, i) ==
    IF source_is_remote /\ dest_is_remote
    THEN <<Call("move_file", source_path, dest_path, i)>>
    ELSE IF dest_is_remote
    THEN <<Call("os_remove", source_path, None, i),
           Call("upload_file", source_path, dest_path, i)>>
    ELSE IF source_is_remote
    THEN <<Call("delete_file", source_path, None, i),
           Call("download_file", source_path, dest_path, i)>>
    ELSE <<>>

\* A move between remote paths made of a copy and a delete.
MovePlanByCopy(source_is_remote, dest_is_remote, source_path, dest_path, i) ==
    IF source_is_remote /\ dest_is_remote
    THEN <<Call("copy_file", source_path, dest_path, i),
           Call("delete_file", source_path, None, i)>>
    ELSE IF dest_is_remote
    THEN <<Call("upload_file", source_path, dest_path, i),
           Call("os_remove", source_path, None, i)>>
    ELSE IF source_is_remote
    THEN <<Call("download_file", source_path, dest_path, i),
           Call("delete_file", source_path, None, i)>>
    ELSE <<>>

\* _move_file, "Perform the actual move operation".
MovePlan(source_is_remote, dest_is_remote, source_path, dest_path, i) ==
    IF source_is_remote /\ dest_is_remote
    THEN <<Call("move_file", source_path, dest_path, i)>>
    ELSE IF dest_is_remote
    THEN <<Call("upload_file", source_path, dest_path, i),
           Call("os_remove", source_path, None, i)>>
    ELSE IF source_is_remote
    THEN <<Call("download_file", source_path, dest_path, i),
           Call("delete_file", source_path, None, i)>>
    ELSE <<>>

\* CommandHandler._move_file.  sv and dv are the modification times the
\* source and the destination have; call number k of the move itself raises.
_move_file(w, source, dest, force, update, i, sv, dv, k) ==
    LET source_is_remote == _is_remote_path(source)
        dest_is_remote == _is_remote_path(dest)
        source_path == IF source_is_remote
                       THEN StripSlash(_normalize_remote_path(source))
                       ELSE _normalize_local_path(source)
        dest_path0 == IF dest_is_remote
                      THEN StripSlash(_normalize_remote_path(dest))
                      ELSE _normalize_local_path(dest)
        is_dir == IF dest_is_remote THEN _is_remote_directory(w, dest_path0)
                  ELSE LKind(w, dest_path0) = "dir"
        dest_path == IF is_dir THEN join(dest_path0, basename(source_path)) ELSE dest_path0
        dest_exists == IF dest_is_remote THEN RKind(w, dest_path) # "none"
                       ELSE LKind(w, dest_path) # "none"
        probes == (IF dest_is_remote THEN IsDirCalls(dest_path0, i) ELSE <<>>)
                  \o (IF dest_is_remote
                      THEN <<Call("get_metadata", dest_path, None, i)>> ELSE <<>>)
        compares == dest_exists /\ ~(~force /\ ~update) /\ update
        src_probe == IF compares /\ source_is_remote
                     THEN <<Call("get_metadata", source_path, None, i)>> ELSE <<>>
        same == source_is_remote = dest_is_remote /\ source_path = dest_path
        source_mtime == IF compares THEN MTime(w, source_is_remote, source_path, sv) ELSE NoTime
        dest_mtime == IF compares
                      THEN MTime(w, dest_is_remote, dest_path, IF same THEN sv ELSE dv)
                      ELSE NoTime
        asks == probes \o src_probe
        plan == MovePlan(source_is_remote, dest_is_remote, source_path, dest_path, i)
        run == Exec(w, asks \o plan, IF k = 0 THEN 0 ELSE Len(asks) + k)
        Res(w2, cs, out, e) ==
            [w |-> w2, calls |-> cs, out |-> out, err |-> e, dest_path |-> dest_path,
             dest_exists |-> dest_exists, sm |-> source_mtime, dm |-> dest_mtime]
    IN  IF DestExistsRaises(dest_exists, force, update)
        THEN Res(w, Asked(w, probes), "error", "dest_exists")
        ELSE IF SkipsMove(dest_exists, force, update, source_mtime, dest_mtime)
        THEN Res(w, Asked(w, asks), "skipped", "none")
        ELSE IF ~source_is_remote /\ ~dest_is_remote
        THEN Res(w, Asked(w, asks), "error", "local_to_local")
        ELSE Res(run.w, run.log,
                 IF run.failed THEN "error" ELSE "done",
                 IF run.failed THEN "api_error" ELSE "none")

\* mv_with_options up to its loop.
MvBegin ==
    /\ pc = "start"
    /\ cmd = "mv"
    /\ LET p == Prepare(fs, sources, target_directory, FALSE)
       IN  IF p.err # "none" THEN Abort(p.err, p.calls, p.list, p.dest) ELSE Enter(p)

\* One iteration of the loop of mv_with_options.  The modification times are
\* read only with update and an existing destination, and a call of the move
\* can raise only when the move is reached.
MvStep ==
    /\ pc = "loop"
    /\ cmd = "mv"
    /\ LET source == expanded_sources[idx]
           first == _move_file(fs, source, destination, opts.force, opts.update,
                               idx, 0, 0, 0)
           Times == IF first.dest_exists /\ opts.update THEN 0..MaxTime ELSE {0}
       IN  \E sv, dv \in Times :
            LET plain == _move_file(fs, source, destination, opts.force, opts.update,
                                    idx, sv, dv, 0)
            IN  \E k \in (IF plain.out = "done" THEN 0..2 ELSE {0}) :
                 LET r == _move_file(fs, source, destination, opts.force, opts.update,
                                     idx, sv, dv, k)
                 IN  /\ fs' = r.w
                     /\ calls' = calls \o r.calls
                     /\ results' = Append(results,
                            Result(source, r.out, r.err, "none", r.dest_path,
                                   r.dest_exists, r.sm, r.dm))
                     /\ LoopOn(r.err, FALSE)
    /\ UNCHANGED <<lvars, cvars, cmd, sources, target_directory, opts, expanded_sources, destination>>

\* --------------------------------------------------------------------- cp
\* What the copy of one source does: the error it raises before any call
\* that can fail ("none": no such error), the calls it issues in order, and
\* whether an error is re-raised as "No such file or directory" (the remote
\* sources) or as it is.
\* A copy whose errors are never re-raised as "No such file or directory".
CopyPlanUnwrapped(early, plan, wrap) == [early |-> early, plan |-> plan, wrap |-> FALSE]

CopyPlan(early, plan, wrap) == [early |-> early, plan |-> plan, wrap |-> wrap]

\* A copy that treats a subfolder as one more entry to copy.
CopyEntriesFlat(w, remote_source, remote_dest, i) ==
    LET items == list_folder(w, remote_source)
    IN  <<Call("list_folder", remote_source, None, i)>>
        \o [j \in 1..Len(items) |->
               Call("copy_file", items[j].path, join(remote_dest, items[j].name), i)]

\* CommandHandler._copy_directory_recursive_remote, as the calls it issues.
RECURSIVE _copy_directory_recursive_remote(_, _, _, _)
RECURSIVE CopyItems(_, _, _, _, _)
CopyItems(w, items, j, remote_dest, i) ==
    IF j > Len(items) THEN <<>>
    ELSE (IF items[j].type = "file"
          THEN <<Call("copy_file", items[j].path, join(remote_dest, items[j].name), i)>>
          ELSE _copy_directory_recursive_remote(
                   w, items[j].path, join(remote_dest, items[j].name), i))
         \o CopyItems(w, items, j + 1, remote_dest, i)

_copy_directory_recursive_remote(w, remote_source, remote_dest, i) ==
    <<Call("list_folder", remote_source, None, i)>>
    \o CopyItems(w, list_folder(w, remote_source), 1, remote_dest, i)

\* CommandHandler._download_directory_contents, as the calls it issues.
RECURSIVE _download_directory_contents(_, _, _, _)
RECURSIVE DownloadItems(_, _, _, _, _)
DownloadItems(w, items, j, local_dest, i) ==
    IF j > Len(items) THEN <<>>
    ELSE (IF items[j].type = "file"
          THEN <<Call("download_file", items[j].path, join(local_dest, items[j].name), i)>>
          ELSE _download_directory_contents(
                   w, items[j].path, join(local_dest, items[j].name), i))
         \o DownloadItems(w, items, j + 1, local_dest, i)

_download_directory_contents(w, remote_dir, local_dest, i) ==
    <<Call("makedirs", local_dest, None, i), Call("list_folder", remote_dir, None, i)>>
    \o DownloadItems(w, list_folder(w, remote_dir), 1, local_dest, i)

\* A probe followed by create_folder whatever it found.
AlwaysCreateFolder(w, path, i) ==
    IsDirCalls(path, i) \o <<Call("create_folder", path, None, i)>>

\* The probe of a remote directory of the mirrored tree and the create_folder
\* that follows when it is no folder yet.
EnsureFolder(w, path, i) ==
    IsDirCalls(path, i)
    \o (IF _is_remote_directory(w, path) THEN <<>>
        ELSE <<Call("create_folder", path, None, i)>>)

\* The names in a local directory that are directories / files (os.walk).
LocalNames(w, dir, kind) ==
    LET Has(name) == LKind(w, join(dir, name)) = kind IN SelectSeq(NameOrder, Has)

\* The loop over os.walk(local_dir) of _upload_directory_recursive, from the
\* directory `root` down: its subdirectories, its files, then each subdirectory.
RECURSIVE Walk(_, _, _, _, _)
RECURSIVE WalkDirs(_, _, _, _, _, _, _)
WalkDirs(w, local_dir, root, remote_base, i, names, j) ==
    IF j > Len(names) THEN <<>>
    ELSE Walk(w, local_dir, join(root, names[j]), remote_base, i)
         \o WalkDirs(w, local_dir, root, remote_base, i, names, j + 1)

Walk(w, local_dir, root, remote_base, i) ==
    LET dirs == LocalNames(w, root, "dir")
        files == LocalNames(w, root, "file")
        Rel(name) == SubSeq(join(root, name), Len(local_dir) + 1, Len(root) + 1)
        Probe(j) == EnsureFolder(w, remote_base \o Rel(dirs[j]), i)
        Upload(j) == Call("upload_file", join(root, files[j]), remote_base \o Rel(files[j]), i)
        RECURSIVE Probes(_)
        Probes(j) == IF j > Len(dirs) THEN <<>> ELSE Probe(j) \o Probes(j + 1)
    IN  Probes(1) \o [j \in 1..Len(files) |-> Upload(j)]
        \o WalkDirs(w, local_dir, root, remote_base, i, dirs, 1)

\* An upload that walks the tree first and sees to its base folder last.
UploadBeforeBase(w, local_dir, remote_base, i) ==
    LET base == join(remote_base, basename(local_dir))
    IN  Walk(w, local_dir, local_dir, base, i) \o EnsureFolder(w, base, i)

\* CommandHandler._upload_directory_recursive, as the calls it issues.
_upload_directory_recursive(w, local_dir, remote_base, i) ==
    LET base == join(remote_base, basename(local_dir))
    IN  EnsureFolder(w, base, i) \o Walk(w, local_dir, local_dir, base, i)

\* An upload that mirrors a directory whether or not -r was given.
UploadDirectoryRegardless(w, source, dest_path, recursive, treat_target_as_file, i) ==
    IF LKind(w, source) = "dir"
    THEN CopyPlan("none", _upload_directory_recursive(w, source, dest_path, i), FALSE)
    ELSE CopyPlan("no_such_file", <<>>, FALSE)

\* CommandHandler._copy_local_to_remote.
_copy_local_to_remote(w, source, dest_path, recursive, treat_target_as_file, i) ==
    IF LKind(w, source) = "file"
    THEN IF treat_target_as_file
         THEN CopyPlan("none", <<Call("upload_file", source, dest_path, i)>>, FALSE)
         ELSE IF ~_is_remote_directory(w, dest_path)
         THEN CopyPlan("none", IsDirCalls(dest_path, i)
                               \o <<Call("upload_file", source, dest_path, i)>>, FALSE)
         ELSE CopyPlan("none", IsDirCalls(dest_path, i)
                               \o <<Call("upload_file", source,
                                         join(dest_path, basename(source)), i)>>, FALSE)
    ELSE IF LKind(w, source) = "dir"
    THEN IF ~recursive THEN CopyPlan("is_directory_no_r", <<>>, FALSE)
         ELSE CopyPlan("none", _upload_directory_recursive(w, source, dest_path, i), FALSE)
    ELSE CopyPlan("no_such_file", <<>>, FALSE)

\* A folder downloaded directly under the destination even when it exists.
DownloadTreeOnto(w, source, dest_path, recursive, treat_target_as_file, i) ==
    LET meta == <<Call("get_metadata", source, None, i)>>
    IN  IF RKind(w, source) = "folder" /\ recursive
        THEN CopyPlan("none",
                      meta \o _download_directory_contents(w, source, dest_path, i), TRUE)
        ELSE CopyPlan("no_such_file", meta, TRUE)

\* A download that goes into an existing directory even under -T.
DownloadIntoDirectory(w, source, dest_path, recursive, treat_target_as_file, i) ==
    LET meta == <<Call("get_metadata", source, None, i)>>
    IN  IF RKind(w, source) = "file"
        THEN CopyPlan("none",
                      meta \o <<Call("download_file", source,
                                     IF LKind(w, dest_path) = "dir"
                                     THEN join(dest_path, basename(source))
                                     ELSE dest_path, i)>>, TRUE)
        ELSE CopyPlan("no_such_file", meta, TRUE)

\* CommandHandler._copy_remote_to_local.
_copy_remote_to_local(w, source, dest_path, recursive, treat_target_as_file, i) ==
    LET meta == <<Call("get_metadata", source, None, i)>>
        actual_dest == IF LKind(w, dest_path) # "none"
                       THEN join(dest_path, basename(source)) ELSE dest_path
    IN  IF RKind(w, source) = "file"
        THEN IF ~treat_target_as_file /\ LKind(w, dest_path) = "dir"
             THEN CopyPlan("none", meta \o <<Call("download_file", source,
                                               join(dest_path, basename(source)), i)>>, TRUE)
             ELSE CopyPlan("none", meta \o <<Call("download_file", source, dest_path, i)>>,
                           TRUE)
        ELSE IF RKind(w, source) = "folder"
        THEN IF ~recursive THEN CopyPlan("no_such_file", meta, TRUE)
             ELSE CopyPlan("none",
                           meta \o _download_directory_contents(w, source, actual_dest, i), TRUE)
        ELSE CopyPlan("no_such_file", meta, TRUE)

\* CommandHandler._copy_remote_to_remote.
_copy_remote_to_remote(w, source, dest_path, recursive, treat_target_as_file, i) ==
    LET meta == <<Call("get_metadata", source, None, i)>>
    IN  IF RKind(w, source) = "file"
        THEN IF treat_target_as_file
             THEN CopyPlan("none", meta \o <<Call("copy_file", source, dest_path, i)>>, TRUE)
             ELSE IF ~_is_remote_directory(w, dest_path)
             THEN CopyPlan("none", meta \o IsDirCalls(dest_path, i)
                                   \o <<Call("copy_file", source, dest_path, i)>>, TRUE)
             ELSE CopyPlan("none", meta \o IsDirCalls(dest_path, i)
                                   \o <<Call("copy_file", source,
                                             join(dest_path, basename(source)), i)>>, TRUE)
        ELSE IF RKind(w, source) = "folder"
        THEN IF ~recursive THEN CopyPlan("no_such_file", meta, TRUE)
             ELSE CopyPlan("none",
                           meta \o _copy_directory_recursive_remote(w, source, dest_path, i),
                           TRUE)
        ELSE CopyPlan("no_such_file", meta, TRUE)

\* CommandHandler._copy_file_or_folder.
_copy_file_or_folder(w, source, dest, recursive, treat_target_as_file, i) ==
    LET source_is_remote == _is_remote_path(source)
        dest_is_remote == _is_remote_path(dest)
        source_path == IF source_is_remote
                       THEN StripSlash(_normalize_remote_path(source))
                       ELSE _normalize_local_path(source)
        dest_path == IF dest_is_remote
                     THEN StripSlash(_normalize_remote_path(dest))
                     ELSE _normalize_local_path(dest)
    IN  IF source_is_remote /\ dest_is_remote
        THEN _copy_remote_to_remote(w, source_path, dest_path, recursive,
                                    treat_target_as_file, i)
        ELSE IF source_is_remote
        THEN _copy_remote_to_local(w, source_path, dest_path, recursive,
                                   treat_target_as_file, i)
        ELSE IF dest_is_remote
        THEN _copy_local_to_remote(w, source_path, dest_path, recursive,
                                   treat_target_as_file, i)
        ELSE CopyPlan("local_to_local", <<>>, FALSE)

\* The kind of a source as its step finds it.
SourceKind(w, source) ==
    IF _is_remote_path(source)
    THEN RKind(w, StripSlash(_normalize_remote_path(source)))
    ELSE LKind(w, _normalize_local_path(source))

\* cp_with_options up to its loop.
CpBegin ==
    /\ pc = "start"
    /\ cmd = "cp"
    /\ LET p == Prepare(fs, sources, target_directory, opts.treat_as_file)
       IN  IF p.err # "none" THEN Abort(p.err, p.calls, p.list, p.dest) ELSE Enter(p)

\* One iteration of the loop of cp_with_options; call number k of the copy
\* raises.
CpStep ==
    /\ pc = "loop"
    /\ cmd = "cp"
    /\ LET source == expanded_sources[idx]
           c == _copy_file_or_folder(fs, source, destination, opts.recursive,
                                     opts.treat_as_file, idx)
       IN  \E k \in 0..Len(c.plan) :
            LET run == Exec(fs, c.plan, k)
                e == IF c.early # "none" THEN c.early
                     ELSE IF ~run.failed THEN "none"
                     ELSE IF c.wrap THEN "no_such_file" ELSE "api_error"
            IN  /\ fs' = run.w
                /\ calls' = calls \o run.log
                /\ results' = Append(results,
                       Result(source, IF e = "none" THEN "done" ELSE "error", e,
                              SourceKind(fs, source), None, FALSE, NoTime, NoTime))
                /\ LoopOn(e, FALSE)
    /\ UNCHANGED <<lvars, cvars, cmd, sources, target_directory, opts, expanded_sources, destination>>

\* --------------------------------------------------------------------- rm
\* CommandHandler._remove_file_or_folder; k = 1: the delete call raises.
\* An error whose text holds "not_found" is re-raised as "No such file or
\* directory": the gateway's error for a missing path, and any error that
\* quotes a source with that text in it.
_remove_file_or_folder(w, source, recursive, i, k) ==
    LET source_path == StripSlash(_normalize_remote_path(source))
        kind == RKind(w, source_path)
        meta == <<Call("get_metadata", source_path, None, i)>>
        run == Exec(w, meta \o <<Call("delete_file", source_path, None, i)>>,
                    IF k = 0 THEN 0 ELSE 2)
    IN  IF kind = "none"
        THEN [w |-> w, calls |-> Asked(w, meta), err |-> "no_such_file", kind |-> kind]
        ELSE IF kind = "folder" /\ ~recursive
        THEN [w |-> w, calls |-> Asked(w, meta), kind |-> kind,
              err |-> IF MentionsNotFound(source) THEN "no_such_file" ELSE "is_a_directory"]
        ELSE [w |-> run.w, calls |-> run.log,
              err |-> IF run.failed THEN "api_error" ELSE "none", kind |-> kind]

\* An empty expansion that is an error even with force.
NoFilesMatchedForced(list, force) == list = <<>>

\* rm_with_options, `if not expanded_sources: if not force: raise`.
NoFilesMatched(list, force) == list = <<>> /\ ~force

\* A check of the first expanded source only.
FirstRemoteOnly(list) == _is_remote_path(list[1])

\* rm_with_options, "Validate all sources are remote paths only".
RemoteOnly(list) == \A i \in 1..Len(list) : _is_remote_path(list[i])

\* rm_with_options up to its loop: operands, expansion, remote-only check.
RmBegin ==
    /\ pc = "start"
    /\ cmd = "rm"
    /\ LET ex == _expand_source_wildcards(fs, sources)
       IN  IF sources = <<>> THEN Abort("missing_operand", <<>>, <<>>, None)
           ELSE IF ex.raised THEN Abort("expand_error", ex.calls, <<>>, None)
           ELSE IF NoFilesMatched(ex.list, opts.force)
           THEN Abort("no_files_matched", ex.calls, ex.list, None)
           ELSE IF ex.list = <<>>
           THEN /\ pc' = "done"
                /\ calls' = calls \o Asked(fs, ex.calls)
                /\ UNCHANGED <<lvars, cvars, cmd, sources, target_directory, opts, fs,
                               expanded_sources, destination, idx, err, results>>
           ELSE IF ~RemoteOnly(ex.list)
           THEN Abort("requires_remote", ex.calls, ex.list, None)
           ELSE /\ pc' = "loop"
                /\ idx' = 1
                /\ expanded_sources' = ex.list
                /\ calls' = calls \o Asked(fs, ex.calls)
                /\ UNCHANGED <<lvars, cvars, cmd, sources, target_directory, opts, fs, destination,
                               err, results>>

\* One iteration of the loop of rm_with_options.
RmStep ==
    /\ pc = "loop"
    /\ cmd = "rm"
    /\ \E k \in 0..1 :
        LET source == expanded_sources[idx]
            r == _remove_file_or_folder(fs, source, opts.recursive, idx, k)
        IN  /\ fs' = r.w
            /\ calls' = calls \o r.calls
            /\ results' = Append(results,
                   Result(source, IF r.err = "none" THEN "done" ELSE "error", r.err,
                          r.kind, None, FALSE, NoTime, NoTime))
            /\ LoopOn(r.err, opts.force)
    /\ UNCHANGED <<lvars, cvars, cmd, sources, target_directory, opts, expanded_sources, destination>>

Next == CpBegin \/ CpStep \/ MvBegin \/ MvStep \/ RmBegin \/ RmStep

Spec == Init /\ [][Next]_vars

\* ---------------------------------------------------------- ls, the command
\* The paths ls is given: "/" (the default of the click argument), "//",
\* "//d", "//d/*" and the local "d".
LsPaths == {ApiRoot, RemoteRoot, <<"", "", "d">>, Star, <<"d">>}

LsFlags ==
    {[NoLs EXCEPT !.long_format = l, !.reverse = r, !.recursive = rec,
                  !.sort_by_size = s, !.sort_by_time = t] :
        l, r, rec, s, t \in BOOLEAN}

\* The listings of the gateway: up to MaxItems entries with distinct names in
\* any order.  A size or a time that the flags do not read stays 0.
LsListings(args) ==
    LET Sizes == IF args.sort_by_size /\ ~args.recursive THEN 0..MaxSize ELSE {0}
        Times == IF args.sort_by_time /\ ~args.sort_by_size /\ ~args.recursive
                 THEN 0..MaxTime ELSE {0}
        Entry(name) == IF name = "d" THEN {LsItem(name, 0, 0)}
                       ELSE {LsItem(name, sz, tm) : sz \in Sizes, tm \in Times}
        Entries == UNION {Entry(LsNames[i]) : i \in 1..Len(LsNames)}
    IN  {l \in UNION {[1..n -> Entries] : n \in 0..MaxItems} :
            \A i, j \in 1..Len(l) : i # j => l[i].name # l[j].name}

\* cli.ls was invoked; the gateway will answer the listing, or raise.
LsInit ==
    /\ NoCommand
    /\ ClientNew
    /\ \E path \in LsPaths, flags \in LsFlags :
        LET args == [flags EXCEPT !.path = path]
        IN  /\ ls_args = args
            /\ \E l \in LsListings(args), raises \in BOOLEAN :
                /\ (raises \/ ~_is_remote_path(path)) => l = <<>>
                /\ ~_is_remote_path(path) => ~raises
                /\ ls_store = [items |-> l, raises |-> raises]
    /\ ls_pc = "cli"
    /\ ls_call = <<>>
    /\ ls_out = <<>>
    /\ ls_exit = "running"

\* ls_with_options up to the answer of list_folder.
LsList ==
    /\ ls_pc = "cli"
    /\ IF ~_is_remote_path(ls_args.path)
       THEN /\ ls_pc' = "raised"
            /\ UNCHANGED ls_call
       ELSE /\ ls_call' = <<[path |-> LsTarget(ls_args.path).path,
                             recursive |-> ls_args.recursive]>>
            /\ ls_pc' = IF ls_store.raises THEN "raised" ELSE "listed"
    /\ UNCHANGED <<hvars, cvars, ls_args, ls_store, ls_out, ls_exit>>

\* ls_with_options from the answer on: the mask, the order, the printing.
LsShow ==
    /\ ls_pc = "listed"
    /\ LET target == LsTarget(ls_args.path)
           items == IF target.mask # ""
                    THEN _filter_remote_paths(ls_store.items, target.mask)
                    ELSE ls_store.items
       IN  IF ls_args.recursive
           THEN /\ ls_out' = LsTree(items, IF target.path = <<"">> THEN "/"
                                           ELSE basename(target.path))
                /\ ls_pc' = "returned"
           ELSE IF ~ls_args.sort_by_size /\ ls_args.sort_by_time /\ TimeSortRaises(items)
           THEN /\ ls_pc' = "raised"
                /\ UNCHANGED ls_out
           ELSE /\ ls_out' = NamesOf(LsOrder(items, ls_args))
                /\ ls_pc' = "returned"
    /\ UNCHANGED <<hvars, cvars, ls_args, ls_store, ls_call, ls_exit>>

\* cli.ls after the handler: sys.exit(1) on any exception.
LsExit ==
    /\ ls_pc \in {"returned", "raised"}
    /\ ls_exit' = IF ls_pc = "raised" THEN "1" ELSE "0"
    /\ ls_pc' = "exited"
    /\ UNCHANGED <<hvars, cvars, ls_args, ls_store, ls_call, ls_out>>

LsNext == LsList \/ LsShow \/ LsExit

LsSpec == LsInit /\ [][LsNext]_vars

\* ================================================================ properties
\* What the properties read off a state.
Started == pc # "start"

BeforeLoop == Started /\ results = <<>> /\ idx <= 1

IsTransfer(c) == c.op \in {"upload_file", "download_file", "copy_file"}

IsRemoval(c) == c.op \in {"delete_file", "os_remove"}

CallsOf(j) == SelectSeq(calls, LAMBDA c : c.src = j)

\* dest names an existing directory in w (the remote root is one).
IsExistingDirectory(w, dest) ==
    IF _is_remote_path(dest)
    THEN LET path == SelectSeq(dest, NonEmptySeg)
         IN  path = <<>> \/ <<"">> \o path \in w.rd
    ELSE _normalize_local_path(dest) \in w.ld

ManyIntoNonDirectory ==
    /\ cmd = "cp"
    /\ BeforeLoop
    /\ Len(expanded_sources) >= 2
    /\ destination # None
    /\ ~IsExistingDirectory(fs, destination)

FailsNotADirectory ==
    /\ pc = "failed"
    /\ err = "not_a_directory"
    /\ \A n \in 1..Len(calls) : ~IsTransfer(calls[n])

OneDomain(list) ==
    \A i, j \in 1..Len(list) : _is_remote_path(list[i]) = _is_remote_path(list[j])

\* C1 as stated: cp with two or more expanded sources and a destination that
\* is not an existing directory always fails with 'not a directory' and
\* issues no upload, download or copy call, whatever the domains and flags.
C1_AsStated == ManyIntoNonDirectory => FailsNotADirectory

\* C1: cp with two or more expanded sources, all of one domain, and a
\* destination that is not an existing directory fails with 'not a
\* directory' and issues no upload, download or copy call, unless
\* treat-as-file (-T) is set; with -T the check is not made.
C1_NotADirectory ==
    /\ (ManyIntoNonDirectory /\ ~opts.treat_as_file /\ OneDomain(expanded_sources))
           => FailsNotADirectory
    /\ (cmd = "cp" /\ pc = "failed" /\ err = "not_a_directory")
           => /\ results = <<>>
              /\ \A n \in 1..Len(calls) : ~IsTransfer(calls[n])

\* cp -t //d a b with //d a remote file: rejected before any transfer.
C1_Witness ==
    /\ cmd = "cp" /\ pc = "failed" /\ err = "not_a_directory"
    /\ target_directory = <<"", "", "d">>
    /\ expanded_sources = <<<<"a">>, <<"b">>>>
    /\ RD \in fs.rf

\* The effect of a call that returned is still there in w.
StillInEffect(w, c) ==
    CASE c.op = "move_file" -> RKind(w, c.b) # "none" /\ (c.a = c.b \/ RKind(w, c.a) = "none")
      [] c.op \in {"copy_file", "upload_file"} -> RKind(w, c.b) # "none"
      [] c.op = "create_folder" -> c.a \in w.rd
      [] c.op = "download_file" -> c.b \in w.lf
      [] c.op = "makedirs" -> c.a \in w.ld
      [] c.op = "delete_file" -> RKind(w, c.a) = "none"
      [] c.op = "os_remove" -> c.a \notin w.lf
      [] OTHER -> TRUE

\* C2: a batch without force is processed in the order of the expanded
\* sources; a failure at the i-th source ends the command with that error,
\* no call is issued for a later source, and what the calls of the sources
\* already completed did stays done.
C2_StopsAtFirstFailure ==
    (Started /\ ~opts.force) =>
        /\ Len(results) <= Len(expanded_sources)
        /\ \A j \in 1..Len(results) : results[j].source = expanded_sources[j]
        /\ \A m, n \in 1..Len(calls) : m < n => calls[m].src <= calls[n].src
        /\ \A n \in 1..Len(calls) : calls[n].src <= Len(results)
        /\ \A j \in 1..Len(results) :
              results[j].err # "none" =>
                  /\ j = Len(results)
                  /\ pc = "failed" /\ err = results[j].err
        /\ \A n \in 1..Len(calls) :
              (calls[n].src >= 1 /\ ~calls[n].raised) => StillInEffect(fs, calls[n])

\* Three sources: the first is done, the second fails on a call that raised,
\* the third is never touched.
C2_Witness ==
    /\ ~opts.force
    /\ pc = "failed"
    /\ Len(expanded_sources) = 3 /\ Len(results) = 2
    /\ results[1].out = "done" /\ results[2].err = "api_error"
    /\ \E n \in 1..Len(calls) : calls[n].src = 1 /\ ~IsQuery(calls[n])
    /\ calls[Len(calls)].src = 2 /\ calls[Len(calls)].raised

MultiMvPlain == cmd = "mv" /\ ~opts.force /\ ~opts.update /\ Len(expanded_sources) >= 2

\* C3 as stated: in a multi-source mv without force and update, a source
\* whose destination exists fails for that source only: when the command
\* has ended, every source has been attempted.
C3_AsStated ==
    (MultiMvPlain /\ pc \in {"done", "failed"}
        /\ \E j \in 1..Len(results) : results[j].err = "dest_exists")
    => Len(results) = Len(expanded_sources)

\* C3: in a multi-source mv without force and update, a source whose
\* resolved destination exists fails with 'destination file exists', no
\* move, transfer or removal is issued for it, and the command ends there:
\* no later source is attempted.
C3_DestExistsEndsBatch ==
    MultiMvPlain =>
        \A j \in 1..Len(results) :
            results[j].dest_exists =>
                /\ results[j].err = "dest_exists"
                /\ j = Len(results)
                /\ pc = "failed" /\ err = "dest_exists"
                /\ \A n \in 1..Len(calls) :
                      /\ calls[n].src <= j
                      /\ calls[n].src = j => IsQuery(calls[n])

\* mv //a //b //d with //d/a present: the first source fails, //b stays.
C3_Witness ==
    /\ MultiMvPlain
    /\ pc = "failed" /\ err = "dest_exists"
    /\ Len(results) = 1 /\ results[1].dest_exists
    /\ expanded_sources = <<<<"", "", "a">>, <<"", "", "b">>>>
    /\ RB \in fs.rf

\* The pairs of domains _move_file supports.
Supported(r) == _is_remote_path(r.source) \/ _is_remote_path(destination)

BothTimesRead(r) == r.dest_exists /\ r.sm.t # "none" /\ r.dm.t # "none"

OnlyQueries(j) == \A n \in 1..Len(calls) : calls[n].src = j => IsQuery(calls[n])

\* C4: mv with update and an existing resolved destination, between domains
\* that mv supports and whatever the two modification times: the move is
\* skipped (no move, upload, download or delete call, no error) when the
\* source's time is not later than the destination's, and is not skipped
\* when it is later.
C4_SkipIffNotNewer ==
    (cmd = "mv" /\ opts.update) =>
        \A j \in 1..Len(results) :
            (BothTimesRead(results[j]) /\ Supported(results[j])) =>
                IF results[j].sm.v <= results[j].dm.v
                THEN results[j].out = "skipped" /\ results[j].err = "none" /\ OnlyQueries(j)
                ELSE results[j].out # "skipped"

MoveIssued(j) ==
    \E n \in 1..Len(calls) :
        calls[n].src = j /\ calls[n].op \in {"move_file", "upload_file", "download_file"}

\* C5 as stated: with force, whenever the resolved destination exists the
\* move is performed, neither failing on the existing destination nor
\* skipped, whatever update and the two modification times are.
C5_AsStated ==
    (cmd = "mv" /\ opts.force) =>
        \A j \in 1..Len(results) :
            (results[j].dest_exists /\ Supported(results[j])) =>
                /\ results[j].err # "dest_exists"
                /\ results[j].out # "skipped"
                /\ MoveIssued(j)

\* C5: with force, mv never fails because the destination exists.  With
\* update unset the move onto an existing destination is performed whatever
\* the modification times; with update set it can still be skipped, and
\* only when the source's time is not later than the destination's.
C5_ForceNeverFailsOnExisting ==
    (cmd = "mv" /\ opts.force) =>
        \A j \in 1..Len(results) :
            (results[j].dest_exists /\ Supported(results[j])) =>
                /\ results[j].err # "dest_exists"
                /\ ~opts.update => (results[j].out # "skipped" /\ MoveIssued(j))
                /\ results[j].out = "skipped" =>
                       /\ opts.update /\ BothTimesRead(results[j])
                       /\ results[j].sm.v <= results[j].dm.v
                /\ results[j].out # "skipped" => MoveIssued(j)

\* mv -f a //d over an existing //d/a: uploaded and removed.
C5_Witness ==
    /\ cmd = "mv" /\ opts.force /\ ~opts.update
    /\ Len(results) = 1 /\ results[1].dest_exists /\ results[1].out = "done"
    /\ results[1].source = <<"a">>
    /\ \E n \in 1..Len(calls) : calls[n].op = "os_remove"

IsCarry(c) == c.op \in {"upload_file", "download_file"}

\* C6: in a cross-domain mv the source is deleted only after its upload or
\* download returned: every os.remove or delete_file call directly follows
\* the transfer of the same source, which did not raise, and a transfer that
\* raised is the last call of the command.
C6_DeleteAfterTransfer ==
    cmd = "mv" =>
        \A n \in 1..Len(calls) :
            /\ IsRemoval(calls[n]) =>
                  /\ n > 1
                  /\ IsCarry(calls[n - 1]) /\ ~calls[n - 1].raised
                  /\ calls[n - 1].src = calls[n].src
                  /\ calls[n - 1].a = calls[n].a
            /\ (IsCarry(calls[n]) /\ calls[n].raised) => (n = Len(calls) /\ pc = "failed")
            /\ (IsCarry(calls[n]) /\ ~calls[n].raised) =>
                  (n < Len(calls) /\ IsRemoval(calls[n + 1]))

\* The download of mv //a d raised: //a is still on the remote store.
C6_Witness ==
    /\ cmd = "mv" /\ pc = "failed" /\ err = "api_error"
    /\ calls # <<>>
    /\ calls[Len(calls)].op = "download_file" /\ calls[Len(calls)].raised
    /\ calls[Len(calls)].a = RA
    /\ RA \in fs.rf

\* The path of a remote operand in the API's form.
ApiPath(path) == <<"">> \o SelectSeq(path, NonEmptySeg)

MovesOf(j) == SelectSeq(calls, LAMBDA c : c.src = j /\ c.op = "move_file")

\* C7: in a remote-to-remote mv a source that is moved gives exactly one
\* move_file call and no copy, upload, download or delete call; into an
\* existing remote directory the call is move_file(source, directory/leaf);
\* the calls come in the order of the sources.
C7_OneMoveCall ==
    (cmd = "mv" /\ destination # None /\ _is_remote_path(destination)) =>
        /\ \A j \in 1..Len(results) :
              _is_remote_path(results[j].source) =>
                  /\ \A n \in 1..Len(calls) :
                        calls[n].src = j => (IsQuery(calls[n]) \/ calls[n].op = "move_file")
                  /\ Len(MovesOf(j)) <= 1
                  /\ results[j].out = "done" =>
                        (Len(MovesOf(j)) = 1 /\ ~MovesOf(j)[1].raised)
                  /\ \A n \in 1..Len(MovesOf(j)) :
                        /\ MovesOf(j)[n].a = ApiPath(results[j].source)
                        /\ IsExistingDirectory(fs, destination) =>
                              MovesOf(j)[n].b =
                                  Append(ApiPath(destination), basename(results[j].source))
        /\ \A m, n \in 1..Len(calls) : m < n => calls[m].src <= calls[n].src

\* mv //a //b //d: move_file(/a, /d/a), then move_file(/b, /d/b).
C7_Witness ==
    /\ cmd = "mv" /\ pc = "done"
    /\ expanded_sources = <<<<"", "", "a">>, <<"", "", "b">>>>
    /\ destination = <<"", "", "d">>
    /\ SelectSeq(calls, LAMBDA c : ~IsQuery(c)) =
           <<Call("move_file", RA, RDA, 1), Call("move_file", RB, RDB, 2)>>

DeletesOf(j) == SelectSeq(calls, LAMBDA c : c.src = j /\ IsRemoval(c))

\* C8: rm of a remote path whose metadata reports a folder: without
\* recursive it fails with 'Is a directory' and issues no delete call; with
\* recursive it issues exactly one delete_file call, for that path, and no
\* listing or per-child delete call.
C8_FolderNeedsRecursive ==
    cmd = "rm" =>
        \A j \in 1..Len(results) :
            results[j].kind = "folder" =>
                IF ~opts.recursive
                THEN results[j].err = "is_a_directory" /\ DeletesOf(j) = <<>>
                ELSE /\ Len(DeletesOf(j)) = 1
                     /\ DeletesOf(j)[1].op = "delete_file"
                     /\ DeletesOf(j)[1].a = ApiPath(results[j].source)
                     /\ \A n \in 1..Len(calls) :
                           calls[n].src = j => calls[n].op # "list_folder"

InRmLoop == cmd = "rm" /\ (pc = "loop" \/ results # <<>>)

\* C9: rm with force attempts every expanded source in order and never
\* propagates the failure of a source: it returns successfully even when
\* every source failed.  Without force the first failure of a source is the
\* command's, and no metadata or delete call is issued for a later source.
C9_ForceSwallowsFailures ==
    InRmLoop =>
        /\ \A j \in 1..Len(results) :
              /\ results[j].source = expanded_sources[j]
              /\ \E n \in 1..Len(calls) :
                    /\ calls[n].src = j
                    /\ calls[n].op = "get_metadata"
                    /\ calls[n].a = ApiPath(expanded_sources[j])
        /\ \A n \in 1..Len(calls) : calls[n].src <= Len(results)
        /\ opts.force =>
              /\ pc # "failed" /\ err = "none"
              /\ pc = "done" <=> Len(results) = Len(expanded_sources)
        /\ ~opts.force =>
              \A j \in 1..Len(results) :
                  results[j].err # "none" =>
                      (j = Len(results) /\ pc = "failed" /\ err = results[j].err)

\* rm -f of two sources that both fail, the first on its delete call:
\* the command is done.
C9_Witness ==
    /\ cmd = "rm" /\ opts.force /\ pc = "done"
    /\ Len(results) = 2
    /\ results[1].err = "api_error" /\ results[2].err # "none"

HasLocal(list) == \E i \in 1..Len(list) : ~_is_remote_path(list[i])

RejectedAsLocal ==
    /\ pc = "failed" /\ err = "requires_remote"
    /\ \A n \in 1..Len(calls) : calls[n].op \notin {"get_metadata", "delete_file"}

AllLocal(list) == list # <<>> /\ \A i \in 1..Len(list) : ~_is_remote_path(list[i])

LocalToLocal ==
    /\ cmd \in {"cp", "mv"}
    /\ Started
    /\ AllLocal(expanded_sources)
    /\ destination # None /\ ~_is_remote_path(destination)

\* C11: cp and mv with local sources and a local destination always fail
\* with an error, never returning or skipping a source, whatever the flags
\* and whether or not the destination exists; they issue no gateway call and
\* change no local file.  (The one call such a command line can hold is the
\* listing of a remote wildcard operand that matched nothing.)
C11_LocalToLocalFails ==
    LocalToLocal =>
        /\ pc # "done"
        /\ \A j \in 1..Len(results) : results[j].out = "error"
        /\ \A n \in 1..Len(calls) : calls[n].src = 0 /\ calls[n].op = "list_folder"

HasRemote(list) == \E i \in 1..Len(list) : _is_remote_path(list[i])

\* C12: cp and mv whose expanded sources hold a remote and a local path, in
\* whatever order and position, fail with 'cannot mix remote and local
\* source files' before any transfer, move or delete call: nothing but the
\* listings of the expansion has been called.
C12_CannotMix ==
    (cmd \in {"cp", "mv"} /\ Started
        /\ HasRemote(expanded_sources) /\ HasLocal(expanded_sources))
    => /\ pc = "failed" /\ err = "cannot_mix"
       /\ results = <<>>
       /\ \A n \in 1..Len(calls) : calls[n].src = 0 /\ calls[n].op = "list_folder"

\* mv '//d/*' a d: two remote paths, then a local one.
C12_Witness ==
    /\ cmd = "mv" /\ pc = "failed" /\ err = "cannot_mix"
    /\ expanded_sources = <<<<"", "", "d", "a">>, <<"", "", "d", "b">>, <<"a">>>>

\* The command lines C13 names: no operand; no -t and fewer than two
\* operands (cp, mv); -T and an operand count other than two (cp).
UsageError ==
    \/ sources = <<>>
    \/ cmd \in {"cp", "mv"} /\ target_directory = None /\ Len(sources) < 2
    \/ cmd = "cp" /\ opts.treat_as_file /\ Len(sources) # 2

\* C13: usage errors abort the command before any gateway call: cp or mv
\* with no operands or, in the trailing-destination form, fewer than two,
\* cp -T with an operand count other than two, and rm with no operands fail
\* without a list, metadata, transfer or delete call.
C13_UsageErrorsAbort ==
    [][(pc = "start" /\ UsageError) => (pc' = "failed" /\ calls' = <<>> /\ results' = <<>>)]_vars

\* The source operands of the command line, the destination left out.
SourceOperands ==
    IF cmd = "rm" \/ target_directory # None \/ sources = <<>> THEN sources
    ELSE SubSeq(sources, 1, Len(sources) - 1)

\* The operands were expanded, to no path at all.
ExpandsToNothing ==
    /\ ~UsageError
    /\ ~_expand_source_wildcards(fs, SourceOperands).raised
    /\ _expand_source_wildcards(fs, SourceOperands).list = <<>>

\* C14: when the expansion of the source operands yields no path, cp and mv
\* fail with 'no files matched'; so does rm, unless force is set and it
\* returns successfully; no transfer, move or delete call is issued.
C14_NoFilesMatched ==
    [][(pc = "start" /\ ExpandsToNothing) =>
          /\ IF cmd = "rm" /\ opts.force
             THEN pc' = "done" /\ err' = "none"
             ELSE pc' = "failed" /\ err' = "no_files_matched"
          /\ results' = <<>>
          /\ \A n \in 1..Len(calls') : calls'[n].op = "list_folder"]_vars

\* rm -f '//d/*' a with nothing in //d and no local a: done, one listing.
C14_Witness ==
    /\ cmd = "rm" /\ opts.force /\ pc = "done" /\ results = <<>>
    /\ sources = <<Star, <<"a">>>>
    /\ Len(calls) = 1 /\ calls[1].op = "list_folder"

\* The operands were expanded (the listings, if any, did not raise).
Expanded == ~UsageError /\ ~_expand_source_wildcards(fs, SourceOperands).raised

Occurrences(list, path) == Cardinality({i \in 1..Len(list) : list[i] = path})

\* C15: the expansion passes a local operand without a wildcard through
\* unchanged whether or not the path exists: it is in the expanded sources,
\* as often as it is among the operands when no local wildcard is.
C15_LocalPassThrough ==
    [][(pc = "start" /\ Expanded) =>
          \A i \in 1..Len(SourceOperands) :
              LET source == SourceOperands[i]
              IN  (~_is_remote_path(source) /\ ~_has_wildcards(source)) =>
                      /\ Occurrences(expanded_sources', source) >= 1
                      /\ (\A j \in 1..Len(SourceOperands) :
                              ~_is_remote_path(SourceOperands[j])
                                  => ~_has_wildcards(SourceOperands[j]))
                         => Occurrences(expanded_sources', source)
                                = Occurrences(SourceOperands, source)]_vars

IsRemoteWild(source) == _is_remote_path(source) /\ source[Len(source)] \in WildNames

\* The directory a remote wildcard operand is to be listed in (API form).
BaseOf(source) ==
    LET segs == SelectSeq(SubSeq(source, 1, Len(source) - 1), NonEmptySeg)
    IN  IF segs = <<>> THEN ApiRoot ELSE <<"">> \o segs

BaseListable(w, source) == BaseOf(source) = ApiRoot \/ BaseOf(source) \in w.rd

\* The entries of the base directory whose leaf matches the pattern, in the
\* order of the listing, as //-prefixed paths.
Matching(w, source) ==
    LET Hit(name) == /\ Append(BaseOf(source), name) \in (w.rf \cup w.rd)
                     /\ fnmatch(name, source[Len(source)])
        names == SelectSeq(NameOrder, Hit)
    IN  [i \in 1..Len(names) |-> <<"">> \o Append(BaseOf(source), names[i])]

\* What the remote operands from the i-th on are to yield, and the
\* directories to be listed for them, up to the first listing that fails.
RECURSIVE RemoteYield(_, _, _)
RemoteYield(w, ops, i) ==
    IF i > Len(ops) THEN <<>>
    ELSE IF ~_is_remote_path(ops[i]) THEN RemoteYield(w, ops, i + 1)
    ELSE IF ~IsRemoteWild(ops[i]) THEN <<ops[i]>> \o RemoteYield(w, ops, i + 1)
    ELSE Matching(w, ops[i]) \o RemoteYield(w, ops, i + 1)

RECURSIVE Listings(_, _, _)
Listings(w, ops, i) ==
    IF i > Len(ops) THEN <<>>
    ELSE IF ~IsRemoteWild(ops[i]) THEN Listings(w, ops, i + 1)
    ELSE IF ~BaseListable(w, ops[i]) THEN <<BaseOf(ops[i])>>
    ELSE <<BaseOf(ops[i])>> \o Listings(w, ops, i + 1)

ListingFails(w, ops) == \E i \in 1..Len(ops) : IsRemoteWild(ops[i]) /\ ~BaseListable(w, ops[i])

Listed(cs) ==
    LET ls == SelectSeq(cs, LAMBDA c : c.op = "list_folder" /\ c.src = 0)
    IN  [i \in 1..Len(ls) |-> ls[i].a]

\* C16: the expansion lists the base directory of each remote wildcard
\* operand exactly once and yields exactly the listed entries whose leaf
\* matches the pattern, as //-prefixed paths in listing order; a remote
\* operand without a wildcard is passed through unchanged with no call; a
\* listing that fails is raised as an expansion error (whose text, built
\* from the operand, is not part of the state).
C16_RemoteExpansion ==
    [][(pc = "start" /\ ~UsageError) =>
          /\ Listed(calls') = Listings(fs, SourceOperands, 1)
          /\ IF ListingFails(fs, SourceOperands)
             THEN pc' = "failed" /\ err' = "expand_error"
             ELSE /\ err' # "expand_error"
                  /\ SelectSeq(expanded_sources', _is_remote_path)
                         = RemoteYield(fs, SourceOperands, 1)]_vars

\* rm '//d/a*' //b with a and b in //d: one listing, //d/a and //b to remove.
C16_Witness ==
    /\ cmd = "rm" /\ pc = "loop" /\ results = <<>>
    /\ sources = <<StarA, <<"", "", "b">>>>
    /\ RDB \in fs.rf
    /\ expanded_sources = <<<<"", "", "d", "a">>, <<"", "", "b">>>>
    /\ Len(calls) = 1 /\ calls[1].op = "list_folder" /\ calls[1].a = RD

\* ------------------------------------------------- properties of the client
\* The SDK calls of the running method made by the call re-issued after the
\* refresh, and the first call the method made at all.
ReissuedCalls == SelectSeq(sdk, LAMBDA e : e.depth = 2)

SameCall(e1, e2) ==
    /\ e1.fn = e2.fn
    /\ e1.a = e2.a
    /\ e1.b = e2.b
    /\ e1.recursive = e2.recursive

SameCallReissued ==
    ReissuedCalls # <<>> => SameCall(ReissuedCalls[1], sdk[1])

RefreshedOnce ==
    Len(SelectSeq(sdk, LAMBDA e : e.fn = "oauth2_flow")) <= 1

AuthErrorOfReissuePropagates ==
    (depth = 2 /\ frame \in {"auth", "raised"} /\ sdk[Len(sdk)].resp \in AuthErrors)
        => caught = sdk[Len(sdk)].resp

RefreshesOnFirstExpiry ==
    (frame = "auth" /\ caught = "expired" /\ ~_refresh_attempted)
        => \/ frame' = "call" /\ depth' = depth + 1 /\ _refresh_attempted'
           \/ frame' = "raised" /\ caught' = "refresh_failed"

\* C17: for each of the eight methods, an attempt that fails with an
\* expired-token AuthError while no refresh was attempted yet is followed by
\* one refresh and, when the refresh succeeded, by the same SDK call with the
\* same arguments (files_list_folder with the same `recursive`); an
\* AuthError of the re-issued call is the error the method raises.
C17_ReissuesSameCall ==
    /\ [](SameCallReissued /\ RefreshedOnce /\ AuthErrorOfReissuePropagates)
    /\ [][RefreshesOnFirstExpiry]_vars
    /\ (frame = "auth") ~> (frame \in {"call", "raised"})

\* The SDK calls that follow the copy the service answered with a conflict
\* at the destination.
IsConflict(e) == e.fn = "files_copy_v2" /\ e.resp = "conflict"

ConflictAt ==
    CHOOSE k \in 1..Len(sdk) :
        IsConflict(sdk[k]) /\ \A j \in 1..(k - 1) : ~IsConflict(sdk[j])

HadConflict == \E k \in 1..Len(sdk) : IsConflict(sdk[k])

AfterConflict == SubSeq(sdk, ConflictAt + 1, Len(sdk))

ConflictHandling ==
    HadConflict =>
        LET first == sdk[ConflictAt]
            tail  == AfterConflict
        IN  /\ Len(tail) <= 2
            /\ Len(tail) >= 1 =>
                  /\ tail[1].fn = "files_delete_v2"
                  /\ tail[1].a = first.b
            /\ Len(tail) = 2 =>
                  /\ tail[1].resp = "ok"
                  /\ tail[2].fn = "files_copy_v2"
                  /\ tail[2].a = first.a
                  /\ tail[2].b = first.b
                  /\ IF tail[2].resp = "ok"
                     THEN frame = "returned"
                     ELSE frame = "raised" /\ caught = tail[2].resp

\* C18: after files_copy_v2 was answered with a conflict at the destination,
\* copy_file calls files_delete_v2 on the destination and then, the delete
\* done, files_copy_v2 once more with the same two paths; it makes no other
\* SDK call, and when that second copy fails the method raises its error.
C18_ConflictRetriesOnce ==
    /\ []ConflictHandling
    /\ (frame = "conflict_delete") ~> (HadConflict /\ Len(AfterConflict) >= 1)
    /\ (frame = "conflict_copy") ~> (HadConflict /\ Len(AfterConflict) = 2)

C18_Witness ==
    /\ HadConflict
    /\ Len(AfterConflict) = 2
    /\ AfterConflict[2].resp = "conflict"
    /\ frame = "raised"

\* ---------------------------------------------------- cp of a single source
\* The source the next step of cp copies, and the paths as the gateway and
\* the local file system are given them.
CpSource == expanded_sources[idx]

CpStepOn(kind) ==
    /\ pc = "loop"
    /\ cmd = "cp"
    /\ SourceKind(fs, CpSource) = kind
    /\ _is_remote_path(CpSource) \/ _is_remote_path(destination)

PathOf(path) ==
    IF ~_is_remote_path(path) THEN _normalize_local_path(path)
    ELSE IF SelectSeq(path, NonEmptySeg) = <<>> THEN ApiRoot ELSE ApiPath(path)

Into(dir, leaf) == IF dir = ApiRoot THEN <<"", leaf>> ELSE Append(dir, leaf)

TransferOp(source, dest) ==
    IF ~_is_remote_path(source) THEN "upload_file"
    ELSE IF _is_remote_path(dest) THEN "copy_file" ELSE "download_file"

\* The calls the step being taken issues.
StepCalls == SubSeq(calls', Len(calls) + 1, Len(calls'))

\* C19: the step of cp on a source that is a file, local to remote, remote
\* to local or remote to remote, issues exactly one transfer call (upload,
\* download or copy by the domains); its target is destination/<leaf of the
\* source> when treat-as-file is unset and the destination is an existing
\* directory of its own domain, and the destination path itself otherwise.
C19_SingleFileTransfer ==
    [][CpStepOn("file") =>
          LET transfers == SelectSeq(StepCalls, IsTransfer)
              dest == PathOf(destination)
          IN  /\ Len(transfers) = 1
              /\ transfers[1].op = TransferOp(CpSource, destination)
              /\ transfers[1].a = PathOf(CpSource)
              /\ transfers[1].b =
                    IF ~opts.treat_as_file /\ IsExistingDirectory(fs, destination)
                    THEN Into(dest, basename(CpSource))
                    ELSE dest]_vars

\* cp -T //a d with d an existing local directory: one download, to d itself.
C19_Witness ==
    /\ cmd = "cp" /\ opts.treat_as_file
    /\ destination = <<"d">> /\ LD \in fs.ld
    /\ Len(results) = 1 /\ results[1].kind = "file"
    /\ _is_remote_path(results[1].source)
    /\ Len(SelectSeq(calls, IsTransfer)) = 1
    /\ \E n \in 1..Len(calls) :
          calls[n].op = "download_file" /\ calls[n].b = _normalize_local_path(<<"d">>)

ForbiddenWithoutRecursive(c) ==
    c.op \in {"upload_file", "download_file", "copy_file", "create_folder", "list_folder"}

\* C20: without the recursive flag, the step of cp on a source that is a
\* directory (a local directory to a remote destination, a remote folder to
\* a local or to a remote destination) fails, which ends the command, and
\* issues no upload, download, copy, create-folder or listing call.
C20_DirectoryNeedsRecursive ==
    [][((CpStepOn("dir") \/ CpStepOn("folder")) /\ ~opts.recursive) =>
          /\ pc' = "failed"
          /\ err' # "none"
          /\ results'[Len(results')].out = "error"
          /\ \A n \in 1..Len(StepCalls) : ~ForbiddenWithoutRecursive(StepCalls[n])]_vars

\* cp d //d with d a local directory: the command fails without a call.
C20_Witness ==
    /\ cmd = "cp" /\ ~opts.recursive /\ pc = "failed"
    /\ results # <<>>
    /\ results[Len(results)].source = LocalDir
    /\ results[Len(results)].kind = "dir"
    /\ results[Len(results)].out = "error"
    /\ _is_remote_path(destination)
    /\ calls = <<>>

\* ------------------------------------------------------ cp -r of a tree
\* The step of cp -r on the local directory L with the remote destination D:
\* the root of the mirrored tree, the directories and the files of the tree.
StepDone == results'[Len(results')].out = "done"

RelTo(dir, p) == SubSeq(p, Len(dir) + 1, Len(p))

UploadRoot == Into(PathOf(destination), basename(CpSource))

LocalTreeDirs == {p \in fs.ld : Below(p, PathOf(CpSource))}

LocalTreeFiles == {p \in fs.lf : Below(p, PathOf(CpSource))}

MirroredDirs ==
    {UploadRoot} \cup {UploadRoot \o RelTo(PathOf(CpSource), p) : p \in LocalTreeDirs}

OpCalls(cs, op) == SelectSeq(cs, LAMBDA c : c.op = op)

Times(cs, op, a) == Len(SelectSeq(cs, LAMBDA c : c.op = op /\ c.a = a))

\* C21: the step of cp -r on a local directory L with a remote destination D
\* issues create_folder at most once per directory of the mirrored tree
\* (D/<leaf of L> and the subdirectories beneath it), only for one that was
\* no folder when the step began, and upload_file at most once per local file
\* of the tree, to D/<leaf of L>/<path relative to L>; a step that completes
\* has created every such directory that was no folder and uploaded every
\* file.
C21_UploadTree ==
    [][(CpStepOn("dir") /\ opts.recursive) =>
          LET creates == OpCalls(StepCalls, "create_folder")
              uploads == OpCalls(StepCalls, "upload_file")
              absent == {q \in MirroredDirs : RKind(fs, q) # "folder"}
          IN  /\ \A n \in 1..Len(creates) :
                    creates[n].a \in absent /\ Times(StepCalls, "create_folder", creates[n].a) = 1
              /\ \A n \in 1..Len(uploads) :
                    /\ uploads[n].a \in LocalTreeFiles
                    /\ uploads[n].b = UploadRoot \o RelTo(PathOf(CpSource), uploads[n].a)
                    /\ Times(StepCalls, "upload_file", uploads[n].a) = 1
              /\ StepDone =>
                    /\ \A q \in absent : Times(StepCalls, "create_folder", q) = 1
                    /\ \A p \in LocalTreeFiles : Times(StepCalls, "upload_file", p) = 1]_vars

\* cp -r d // with d/a, d/d/a on the disk and //d a folder without //d/d:
\* no create_folder for /d, one for /d/d, uploads to /d/a and /d/d/a.
C21_Witness ==
    /\ cmd = "cp" /\ opts.recursive /\ pc = "done"
    /\ destination = RemoteRoot
    /\ Len(results) = 1 /\ results[1].source = LocalDir /\ results[1].kind = "dir"
    /\ Len(OpCalls(calls, "create_folder")) = 1
    /\ Times(calls, "create_folder", RDD) = 1
    /\ Len(OpCalls(calls, "upload_file")) = 2
    /\ \E n \in 1..Len(calls) :
          calls[n].op = "upload_file" /\ calls[n].a = LDDA /\ calls[n].b = RDDA

\* The step of cp -r on the remote folder S: the files and the folders of the
\* tree at S, and the local root the tree is downloaded to.
RemoteTreeFiles == {p \in fs.rf : Below(p, PathOf(CpSource))}

RemoteTreeFolders == {PathOf(CpSource)} \cup {p \in fs.rd : Below(p, PathOf(CpSource))}

DownloadRoot ==
    IF LKind(fs, PathOf(destination)) # "none"
    THEN Append(PathOf(destination), basename(CpSource))
    ELSE PathOf(destination)

EachOnce(cs, op, paths) == \A p \in paths : Times(cs, op, p) = 1

\* C22: the step of cp -r on a remote folder S with a local destination D
\* downloads under D/<leaf of S> when D exists and under D itself when it
\* does not: each download_file call takes a file S/<rel> of the tree to
\* <root>/<rel>, no file is downloaded twice and no folder listed twice, only
\* folders of the tree are listed, and a step that completes has downloaded
\* every file and listed every folder of the tree.
C22_DownloadTree ==
    [][(CpStepOn("folder") /\ opts.recursive /\ ~_is_remote_path(destination)) =>
          LET downloads == OpCalls(StepCalls, "download_file")
              listings == OpCalls(StepCalls, "list_folder")
          IN  /\ \A n \in 1..Len(downloads) :
                    /\ downloads[n].a \in RemoteTreeFiles
                    /\ downloads[n].b = DownloadRoot \o RelTo(PathOf(CpSource), downloads[n].a)
                    /\ Times(StepCalls, "download_file", downloads[n].a) = 1
              /\ \A n \in 1..Len(listings) :
                    /\ listings[n].a \in RemoteTreeFolders
                    /\ Times(StepCalls, "list_folder", listings[n].a) = 1
              /\ StepDone =>
                    /\ EachOnce(StepCalls, "download_file", RemoteTreeFiles)
                    /\ EachOnce(StepCalls, "list_folder", RemoteTreeFolders)]_vars

\* cp -r //d d with d an existing local directory and //d/a, //d/d/a on the
\* store: two listings, downloads to d/d/a and d/d/d/a.
C22_Witness ==
    /\ cmd = "cp" /\ opts.recursive /\ pc = "done"
    /\ destination = <<"d">>
    /\ Len(results) = 1 /\ results[1].source = RemoteDir /\ results[1].kind = "folder"
    /\ Len(OpCalls(calls, "list_folder")) = 2
    /\ Len(OpCalls(calls, "download_file")) = 2
    /\ \E n \in 1..Len(calls) :
          /\ calls[n].op = "download_file"
          /\ calls[n].a = RDDA
          /\ calls[n].b = LD \o <<"d", "d", "a">>

\* D/<rel> for a remote destination D.
Under(dir, rel) == IF dir = ApiRoot THEN <<"">> \o rel ELSE dir \o rel

\* C23: the step of cp -r on a remote folder S with a remote destination D
\* lists only folders of the tree at S, none twice, and issues copy_file only
\* for files of the tree, none twice, each from S/<rel> to D/<rel>; a step
\* that completes has listed every folder and copied every file of the tree.
C23_CopyTree ==
    [][(CpStepOn("folder") /\ opts.recursive /\ _is_remote_path(destination)) =>
          LET copies == OpCalls(StepCalls, "copy_file")
              listings == OpCalls(StepCalls, "list_folder")
          IN  /\ \A n \in 1..Len(copies) :
                    /\ copies[n].a \in RemoteTreeFiles
                    /\ copies[n].b = Under(PathOf(destination),
                                           RelTo(PathOf(CpSource), copies[n].a))
                    /\ Times(StepCalls, "copy_file", copies[n].a) = 1
              /\ \A n \in 1..Len(listings) :
                    /\ listings[n].a \in RemoteTreeFolders
                    /\ Times(StepCalls, "list_folder", listings[n].a) = 1
              /\ StepDone =>
                    /\ EachOnce(StepCalls, "copy_file", RemoteTreeFiles)
                    /\ EachOnce(StepCalls, "list_folder", RemoteTreeFolders)]_vars

\* cp -r //d // with //d/a and //d/d/a on the store: two listings, copies to
\* /a and /d/a.
C23_Witness ==
    /\ cmd = "cp" /\ opts.recursive /\ pc = "done"
    /\ destination = RemoteRoot
    /\ Len(results) = 1 /\ results[1].source = RemoteDir /\ results[1].kind = "folder"
    /\ Len(OpCalls(calls, "list_folder")) = 2
    /\ Len(OpCalls(calls, "copy_file")) = 2
    /\ \E n \in 1..Len(calls) :
          calls[n].op = "copy_file" /\ calls[n].a = RDDA /\ calls[n].b = RDA

----------------------------------------------------------------------------
\* Properties of ls, stated of LsSpec.

\* A non-recursive ls has printed its entries.
LsPrinted == ls_pc = "returned" /\ ~ls_args.recursive

\* The entries of the gateway's listing that the mask of the path keeps, in
\* listing order.
LsKept ==
    LET mask == LsTarget(ls_args.path).mask
    IN  IF mask = "" THEN ls_store.items
        ELSE SelectSeq(ls_store.items, LAMBDA it : fnmatch(it.name, mask))

\* The place of a printed name in the listing, and its size there.
ListedAt(name) == CHOOSE i \in 1..Len(LsKept) : LsKept[i].name = name

SizeOf(name) == SizeKey(LsKept[ListedAt(name)])

\* The output is the listing, each entry once.
PrintsEachOnce ==
    /\ Len(ls_out) = Len(LsKept)
    /\ \A i \in 1..Len(LsKept) : \E p \in 1..Len(ls_out) : ls_out[p] = LsKept[i].name

\* C24: a non-recursive ls prints every entry once; with no sort flag in
\* ascending name order, with sort_by_size in descending size order with
\* entries of equal size in listing order, and with reverse in exactly the
\* opposite order of what the same flags print without it.
C24_LsOrder ==
    LsPrinted =>
        /\ PrintsEachOnce
        /\ (~ls_args.sort_by_size /\ ~ls_args.sort_by_time) =>
              \A p, q \in 1..Len(ls_out) : p < q =>
                  IF ls_args.reverse
                  THEN NameRank(ls_out[p]) > NameRank(ls_out[q])
                  ELSE NameRank(ls_out[p]) < NameRank(ls_out[q])
        /\ ls_args.sort_by_size =>
              \A p, q \in 1..Len(ls_out) : p < q =>
                  IF ls_args.reverse
                  THEN \/ SizeOf(ls_out[p]) < SizeOf(ls_out[q])
                       \/ /\ SizeOf(ls_out[p]) = SizeOf(ls_out[q])
                          /\ ListedAt(ls_out[p]) > ListedAt(ls_out[q])
                  ELSE \/ SizeOf(ls_out[p]) > SizeOf(ls_out[q])
                       \/ /\ SizeOf(ls_out[p]) = SizeOf(ls_out[q])
                          /\ ListedAt(ls_out[p]) < ListedAt(ls_out[q])

\* ls -S printed two entries of equal size that the listing gave against the
\* order of their names, and a larger one before them.
C24_Witness ==
    /\ LsPrinted
    /\ ls_args.sort_by_size
    /\ ~ls_args.reverse
    /\ Len(ls_out) = 3
    /\ \E p, q \in 1..Len(ls_out) :
          /\ p < q
          /\ SizeOf(ls_out[p]) = SizeOf(ls_out[q])
          /\ NameRank(ls_out[p]) > NameRank(ls_out[q])
    /\ SizeOf(ls_out[1]) > SizeOf(ls_out[3])

\* The names of LsNames whose first character is a dot.
HiddenNames == {".h"}

\* C25: a non-recursive ls that was not asked to show hidden entries prints
\* no entry whose name starts with a dot.  ls has no option that asks for
\* them, so this is stated of every non-recursive ls.
C25_HiddenFiltered ==
    LsPrinted => \A p \in 1..Len(ls_out) : ls_out[p] \notin HiddenNames

\* C26: ls without a path argument (cli.ls then passes its default, "/")
\* lists the remote root: the handler accepts the path as remote, list_folder
\* is called with the empty path, and the command exits with status 0.
C26_DefaultListsRoot ==
    (ls_args.path = ApiRoot /\ ls_pc = "exited" /\ ~ls_store.raises) =>
        /\ _is_remote_path(ls_args.path)
        /\ Len(ls_call) = 1
        /\ ls_call[1].path = <<"">>
        /\ ls_exit = "0"

----------------------------------------------------------------------------
\* Properties of cp, stated of Spec (continued).

\* A step of the loop of cp.
CpLoopStep == pc = "loop" /\ cmd = "cp"

RemovesOrMoves(c) == c.op \in {"delete_file", "move_file"}

\* The remote sources of the command that exist in the store w.
RemoteSourcesIn(w) ==
    {PathOf(expanded_sources[i]) : i \in
        {j \in 1..Len(expanded_sources) :
            /\ _is_remote_path(expanded_sources[j])
            /\ RKind(w, PathOf(expanded_sources[j])) # "none"}}

\* C27: cp never removes a source: no step of cp issues a delete or a move,
\* and every remote source that exists before a step exists after it, also
\* when the copy is onto the source itself or onto a folder that holds it and
\* the service answers with a conflict.
C27_SourcesSurvive ==
    [][CpLoopStep =>
          /\ \A n \in 1..Len(StepCalls) : ~RemovesOrMoves(StepCalls[n])
          /\ RemoteSourcesIn(fs) \subseteq RemoteSourcesIn(fs')]_vars

----------------------------------------------------------------------------
\* Properties of the client, stated of ClientSpec (continued).

\* The executions of the try block of the running method: its SDK call, but
\* for the copy that copy_file repeats after the delete of a conflict, which
\* belongs to the execution that met the conflict.
IsAttemptAt(k) ==
    /\ sdk[k].fn = SdkFn(request.op)
    /\ ~(request.op = "copy_file" /\ k > 1 /\ sdk[k - 1].fn = "files_delete_v2")

AttemptsMade == Cardinality({k \in 1..Len(sdk) : IsAttemptAt(k)})

\* The step starts the OAuth flow of refresh_access_token.
FlowStarted ==
    /\ Len(sdk') = Len(sdk) + 1
    /\ sdk'[Len(sdk')].fn = "oauth2_flow"

FlagNeverCleared == _refresh_attempted => _refresh_attempted'

FlowOnlyWithFlagUnset == FlowStarted => (~_refresh_attempted /\ _refresh_attempted')

ExpiredAfterRefreshPropagates ==
    (frame = "auth" /\ caught = "expired" /\ _refresh_attempted)
        => /\ frame' = "raised"
           /\ caught' = "expired"
           /\ sdk' = sdk
           /\ depth' = depth

----------------------------------------------------------------------------
\* Properties of cp, stated of Spec (continued).

\* The step of cp on a remote source, and what makes it fail: the source is
\* missing, it is a folder and -r was not given, or a call other than a
\* query raised (a download, a copy, the copy repeated after a conflict, a
\* makedirs).
CpRemoteStep == CpLoopStep /\ _is_remote_path(CpSource)

RaisedInStep == \E n \in 1..Len(StepCalls) : StepCalls[n].raised /\ ~IsQuery(StepCalls[n])

FailsOnRemoteSource ==
    \/ SourceKind(fs, CpSource) = "none"
    \/ SourceKind(fs, CpSource) = "folder" /\ ~opts.recursive
    \/ RaisedInStep

\* C29: every failure of the step of cp on a remote source reaches the
\* caller as "'<source>': No such file or directory", which ends the command;
\* the step raises no other error, and none when nothing failed.
C29_RemoteFailuresAsNoSuchFile ==
    [][CpRemoteStep =>
          LET r == results'[Len(results')]
          IN  /\ r.source = CpSource
              /\ r.err \in {"none", "no_such_file"}
              /\ FailsOnRemoteSource <=> r.err = "no_such_file"
              /\ r.err = "no_such_file" => (pc' = "failed" /\ err' = "no_such_file")
              /\ r.err = "none" => err' = err]_vars

\* A copy of a remote file that the gateway failed ended the command with
\* "No such file or directory".
C29_Witness ==
    /\ cmd = "cp" /\ pc = "failed" /\ err = "no_such_file"
    /\ results # <<>>
    /\ _is_remote_path(results[Len(results)].source)
    /\ results[Len(results)].kind = "file"
    /\ calls # <<>>
    /\ calls[Len(calls)].op = "copy_file"
    /\ calls[Len(calls)].raised

\* The call at place n of the step is an upload into the remote directory
\* dir, and the call at place m the probe of dir by _is_remote_directory.
UploadsInto(n, dir) ==
    StepCalls[n].op = "upload_file" /\ dirname(StepCalls[n].b) = dir

ProbesAt(m, dir) == StepCalls[m].op = "get_metadata" /\ StepCalls[m].a = dir

CreatesBetween(m, n, dir) ==
    \E c \in (m + 1)..(n - 1) :
        /\ StepCalls[c].op = "create_folder"
        /\ StepCalls[c].a = dir
        /\ ~StepCalls[c].raised

\* C30: in the step of cp -r on a local directory, every upload_file into a
\* remote directory comes after the probe of that directory, and after its
\* create_folder when the probe found no folder there: no file is uploaded
\* into a directory of the mirrored tree that was not yet probed or created.
C30_ProbeBeforeUpload ==
    [][(CpStepOn("dir") /\ opts.recursive) =>
          \A n \in 1..Len(StepCalls) :
              StepCalls[n].op = "upload_file" =>
                  LET dir == dirname(StepCalls[n].b)
                  IN  \E m \in 1..(n - 1) :
                          /\ ProbesAt(m, dir)
                          /\ StepCalls[m].raised = (RKind(fs, dir) = "none")
                          /\ RKind(fs, dir) = "folder" \/ CreatesBetween(m, n, dir)]_vars

\* cp -r d //d with //d/d missing: the probe of /d/d raised, /d/d was
\* created, then d/a was uploaded into it.
C30_Witness ==
    /\ cmd = "cp" /\ opts.recursive
    /\ destination = RemoteDir
    /\ results # <<>> /\ results[1].source = LocalDir
    /\ \E m, c, n \in 1..Len(calls) :
          /\ m < c /\ c < n
          /\ calls[m].op = "get_metadata" /\ calls[m].a = RDD /\ calls[m].raised
          /\ calls[c].op = "create_folder" /\ calls[c].a = RDD /\ ~calls[c].raised
          /\ calls[n].op = "upload_file" /\ calls[n].b = RDDA

====
